---- MODULE Spec2Model ----
(***************************************************************************)
(* A model of node-red-contrib-rfxcom (src/rfxcom.js): the connection      *)
(* pool shared by all nodes, the retransmission timers of the output       *)
(* nodes, the heartbeat timers of the detector node and the event          *)
(* listeners of the input nodes.                                           *)
(*                                                                         *)
(* The RFXCOM driver (the "rfxcom" package) and the flow runtime are not   *)
(* part of the repository.  The driver's events are the inputs of the      *)
(* model: each action named On... is the listener that src/rfxcom.js       *)
(* registers for the event, taken when the driver emits it; the values     *)
(* the driver keeps in rfxtrx.connected and rfxtrx.initialising at that    *)
(* moment are the event's inputs.                                          *)
(***************************************************************************)
EXTENDS Integers, Sequences, FiniteSets, TLC

\* ------------------------------------------------------------------ bounds
\* connection objects (new rfxcom.RfxCom) constructed in one run
MaxHandles == 2
\* length of a pool entry's reference list
MaxRefs == 2
\* timers set by the output node in one run
MaxTimers == 3
\* initialise() calls, of all connections, whose callback is still outstanding
MaxInflight == 2
\* setInterval timers set by the detector node in one run
MaxBeats == 3
\* the most tokens of a payload given to the lights node's parseCommand
MaxTokens == 2
\* the largest percentage of a payload "p%"
MaxPercent == 150

\* serial port device paths (rfxtrxPort.port)
Ports == {"/dev/ttyUSB0", "/dev/ttyUSB1"}
\* nodes that use the pool
Consumers == {"n1", "n2", "n3"}
\* node.rfxtrxPort.port: the port of the config node a node was configured with; every
\* get and release a node makes names this port (src/rfxcom.js:152, :586, :1586)
rfxtrxPort == [n \in Consumers |-> IF n = "n3" THEN "/dev/ttyUSB1" ELSE "/dev/ttyUSB0"]
Handles == 1 .. MaxHandles
TimerIds == 1 .. MaxTimers

\* msg.topic values given to the output node ("" stands for a message without topic)
Topics == {"ARC/A/1", "arc/A/1", "FOO/1"}
\* retransmission keys: a joined topic, or the key of a raw message without topic
Keys == Topics \cup {"__none__"}
\* the protocol names of the transmitters
ProtocolNames == {"ARC", "AC", "FOO", "PT2262", "RAW", "0", "NOVY", "LUCCI_AIR"}
\* msg.payload values given to the output node ("" stands for no payload)
Payloads == {"On", "Mood 1", "xyzzy"}
\* the node that is the output node of the flow
OutNode == "n1"
OutKinds == {"rfx-lights-out", "rfx-PT2262-out", "rfx-raw-out"}
\* a timer id that was never returned by setTimeout or setInterval
NoTimer == [state |-> "unset", key |-> "", payload |-> ""]

\* the input node types whose handlers keep no state between events
InTypes == {"rfx-lights-in", "rfx-PT2262-in", "rfx-sensor", "rfx-meter",
            "rfx-doorbell-in", "rfx-blinds-in"}
\* the nodes that are the input nodes of the flow
InNodes == {"n1", "n2"}
\* the node that is the detector node of the flow
DetNode == "n1"
BeatIds == 1 .. MaxBeats
\* security1 subtypes and device ids of the events the driver delivers
DetectorDevices == {<<"X10_DOOR", "0x1">>, <<"X10_DOOR", "0x2">>, <<"KD101", "0x1">>}
\* msg.topic of a security1 event: subtype name + "/" + evt.id
DetectorTopics == {"X10_DOOR/0x1", "X10_DOOR/0x2", "KD101/0x1"}
\* evt.deviceStatus, by the names of rfxcom.security
DeviceStatuses == {"NORMAL", "ALARM", "MOTION", "NO_MOTION", "PANIC"}
\* a topic node.heartbeats has no property for
NoHeartbeat == [lastStatus |-> "NaN", interval |-> [timer |-> 0]]

VARIABLES
    pool,           \* rfxcomPool's pool: port -> {rfxtrx, references, intervalTimer}
    rfx,            \* the RfxCom objects: handle -> driver-side fields
    inflight,       \* handle -> initialise() calls whose callback has not run
    liveIntervals,  \* handle -> live setInterval timers armed by its listeners
    held,           \* history: consumer -> its get calls not yet released
    lastOp,         \* history: the operation that made the last step
    lastBroadcast,  \* history: the status broadcast made by the last step
    closed,         \* the nodes whose "close" handler has run
    transmitters,   \* rfxtrx.transmitters: handle -> protocol name -> packet type
    outNode,        \* the output node's type and its n.retransmit setting
    retransmissions,\* the output node's node.retransmissions: key -> timer
    timers,         \* the timers the output node has set: id -> state and closure
    nodeType,       \* input nodes: node -> the type it was registered as
    listeners,      \* handle -> the listeners the input nodes have on the RfxCom object
    sent,           \* history: the messages given to node.send by the last step
    detNode,        \* the detector node's topicSource, topic and outputHeartbeats
    heartbeats,     \* the detector node's node.heartbeats: topic -> entry
    beats,          \* the setInterval timers the detector node has set: id -> state
    seen,           \* history: topic -> the Alarm or Normal status of the last event
                    \* the detector node handled from that door or motion detector
    lastCall,       \* history: what the last getRfxcomSubtype call found and did
    invoked,        \* history: the transmitter methods the last input message's first
                    \* send called, in order
    evaluated       \* history: the function last applied, its arguments and its result

\* no function applied yet
NoEval == [fn |-> "", args |-> <<>>, result |-> <<>>, done |-> FALSE]
\* a function about to be applied to its arguments
Pending(fn, args) == [fn |-> fn, args |-> args, result |-> <<>>, done |-> FALSE]

poolVars == <<pool, rfx, inflight, liveIntervals>>
outVars == <<transmitters, outNode, retransmissions, timers, lastCall, invoked, evaluated>>
inVars == <<nodeType, listeners, sent>>
detVars == <<detNode, heartbeats, beats, seen>>
nodeVars == <<closed, transmitters, outNode, retransmissions, timers,
              nodeType, listeners, sent, detNode, heartbeats, beats, seen, lastCall, invoked, evaluated>>
vars == <<pool, rfx, inflight, liveIntervals, held, lastOp, lastBroadcast,
          closed, transmitters, outNode, retransmissions, timers,
          nodeType, listeners, sent, detNode, heartbeats, beats, seen, lastCall, invoked, evaluated>>

\* ---------------------------------------------------------- the pool state
\* pool[port] undefined (src/rfxcom.js:67 tests !pool[port])
NoEntry == [rfxtrx |-> 0, references |-> <<>>, intervalTimer |-> FALSE]

HasEntry(port) == pool[port].rfxtrx # 0

\* an RfxCom object that was never constructed
NoRfx == [device |-> "", connected |-> FALSE, initialising |-> FALSE,
          listening |-> FALSE, closed |-> FALSE, node |-> ""]

\* new rfxcom.RfxCom(port, ...): not connected, no handshake, listeners attached
\* by the rfxtrx.on(...) calls that follow the construction
NewRfx(port) == [device |-> port, connected |-> FALSE, initialising |-> FALSE,
                 listening |-> TRUE, closed |-> FALSE, node |-> ""]

\* the handle a new RfxCom object gets: the number of objects constructed so far + 1
nextHandle == Cardinality({h \in Handles : rfx[h].device # ""}) + 1

RefSet(port) == {pool[port].references[i] : i \in 1 .. Len(pool[port].references)}

\* Array.prototype.indexOf: the first index (1-based here) of node, 0 when absent
IndexOf(refs, node) ==
    IF \E i \in 1 .. Len(refs) : refs[i] = node
    THEN CHOOSE i \in 1 .. Len(refs) :
             refs[i] = node /\ \A j \in 1 .. (i - 1) : refs[j] # node
    ELSE 0

RemoveAt(refs, i) == [j \in 1 .. (Len(refs) - 1) |-> IF j < i THEN refs[j] ELSE refs[j + 1]]

\* references.splice(references.indexOf(node), 1): indexOf gives -1 for a node that
\* is not in the list, and splice(-1, 1) removes the last element
SpliceIndexOf(refs, node) ==
    IF Len(refs) = 0 THEN refs
    ELSE IF IndexOf(refs, node) = 0 THEN RemoveAt(refs, Len(refs))
    ELSE RemoveAt(refs, IndexOf(refs, node))

Op(op, h) == [op |-> op, h |-> h, note |-> ""]

NoOp == Op("none", 0)

NoBroadcast == [port |-> "", text |-> "", missed |-> {}, strangers |-> {}]

\* the consumers that called get for port and have not released it
Holders(hd, port) == {c \in Consumers : rfxtrxPort[c] = port /\ hd[c] > 0}

\* pool[port].references.forEach(function (node) { node.status(...) }): what the
\* broadcast did, against the consumers hd that hold the port
Broadcast(port, text, refs, hd) ==
    LET notified == {refs[i] : i \in 1 .. Len(refs)}
    IN  [port |-> port, text |-> text,
         missed |-> Holders(hd, port) \ notified,
         strangers |-> {c \in notified : rfxtrxPort[c] # port \/ hd[c] = 0}]

\* ------------------------------------------------------------- operations
RECURSIVE outstanding(_, _)
\* the initialise() calls of the connections 1 .. n whose callback has not run
outstanding(f, n) == IF n = 0 THEN 0 ELSE f[n] + outstanding(f, n - 1)

\* rfxtrx.initialise(callback) called by connectTo: the driver marks the object as
\* initialising and keeps the callback until the handshake completes
connectTo(h, r, f) ==
    /\ outstanding(f, MaxHandles) < MaxInflight
    /\ rfx' = [r EXCEPT ![h].initialising = TRUE]
    /\ inflight' = [f EXCEPT ![h] = @ + 1]

\* the test of get looking at the connected flag alone
needsHandshake_ignoresInitialising(r, h) == r[h].connected = FALSE

\* if (rfxtrx.connected === false && rfxtrx.initialising === false)
needsHandshake(r, h) == r[h].connected = FALSE /\ r[h].initialising = FALSE

\* rfxcomPool.get(node, rfxtrxPort).  emits: the driver emits "connecting" from within
\* initialise(), that is before the node is pushed onto the reference list
get(node, port, emits) ==
    LET fresh == ~HasEntry(port)
        h == IF fresh THEN nextHandle ELSE pool[port].rfxtrx
        entry == IF fresh THEN [rfxtrx |-> h, references |-> <<>>, intervalTimer |-> FALSE]
                 ELSE pool[port]
        \* the listeners attached to a new object close over the node of this call
        r == IF fresh THEN [rfx EXCEPT ![h] = [NewRfx(port) EXCEPT !.node = node]]
             ELSE rfx
        start == needsHandshake(r, h)
    IN  /\ fresh => nextHandle <= MaxHandles
        /\ emits => start
        /\ IF start
           THEN connectTo(h, r, inflight)
           ELSE rfx' = r /\ inflight' = inflight
        /\ pool' = [pool EXCEPT ![port] = [entry EXCEPT !.references = Append(@, node)]]
        /\ UNCHANGED liveIntervals
        /\ held' = [held EXCEPT ![node] = @ + 1]
        /\ lastBroadcast' =
              IF emits
              THEN Broadcast(port, "connecting...", entry.references, held')
              ELSE NoBroadcast

\* release discarding the entry without clearing its interval timer
release_keepsTimer(node, port) ==
    IF ~HasEntry(port)
    THEN UNCHANGED poolVars
    ELSE LET h == pool[port].rfxtrx
             refs == SpliceIndexOf(pool[port].references, node)
         IN  IF Len(refs) <= 0
             THEN /\ rfx' = [rfx EXCEPT ![h].connected = FALSE, ![h].initialising = FALSE,
                                        ![h].listening = FALSE, ![h].closed = TRUE]
                  /\ pool' = [pool EXCEPT ![port] = NoEntry]
                  /\ UNCHANGED <<inflight, liveIntervals>>
             ELSE /\ pool' = [pool EXCEPT ![port].references = refs]
                  /\ UNCHANGED <<rfx, inflight, liveIntervals>>

\* rfxcomPool.release(node, port)
release(node, port) ==
    IF ~HasEntry(port)
    THEN UNCHANGED poolVars
    ELSE LET h == pool[port].rfxtrx
             refs == SpliceIndexOf(pool[port].references, node)
         IN  IF Len(refs) <= 0
             THEN /\ rfx' = [rfx EXCEPT ![h].connected = FALSE, ![h].initialising = FALSE,
                                        ![h].listening = FALSE, ![h].closed = TRUE]
                  /\ liveIntervals' =
                        IF pool[port].intervalTimer
                        THEN [liveIntervals EXCEPT ![h] = @ - 1]
                        ELSE liveIntervals
                  /\ pool' = [pool EXCEPT ![port] = NoEntry]
                  /\ UNCHANGED inflight
             ELSE /\ pool' = [pool EXCEPT ![port].references = refs]
                  /\ UNCHANGED <<rfx, inflight, liveIntervals>>

\* releasePort(node)
releasePort(node) ==
    /\ release(node, rfxtrxPort[node])
    /\ held' = [held EXCEPT ![node] = IF @ > 0 THEN @ - 1 ELSE 0]
    /\ lastBroadcast' = NoBroadcast

\* ---------------------------------------------------------------- actions
\* what a release call found: an entry it discarded, with or without a pending timer
ReleaseNote(port) ==
    IF HasEntry(port) /\ ~HasEntry(port)'
    THEN IF pool[port].intervalTimer THEN "discarded, timer cancelled" ELSE "discarded"
    ELSE ""

\* a node is constructed: node.rfxtrx = rfxcomPool.get(node, node.rfxtrxPort)
Get(node) ==
    /\ held[node] = 0
    /\ node \notin closed
    /\ \E emits \in BOOLEAN : get(node, rfxtrxPort[node], emits)
    /\ lastOp' = Op("get", pool'[rfxtrxPort[node]].rfxtrx)
    /\ UNCHANGED nodeVars

\* a node's "close" handler: releasePort(node)
Release(node) ==
    /\ held[node] > 0
    /\ releasePort(node)
    /\ lastOp' = [Op("release", pool[rfxtrxPort[node]].rfxtrx) EXCEPT
                     !.note = ReleaseNote(rfxtrxPort[node])]
    /\ UNCHANGED nodeVars

\* the pool's two operations called in any order, by any consumer
ApiGet(node) ==
    /\ held[node] < MaxRefs
    /\ Len(pool[rfxtrxPort[node]].references) < MaxRefs
    /\ \E emits \in BOOLEAN : get(node, rfxtrxPort[node], emits)
    /\ lastOp' = Op("get", pool'[rfxtrxPort[node]].rfxtrx)
    /\ UNCHANGED nodeVars

ApiRelease(node) ==
    /\ releasePort(node)
    /\ lastOp' = [Op("release", pool[rfxtrxPort[node]].rfxtrx) EXCEPT
                     !.note = ReleaseNote(rfxtrxPort[node])]
    /\ UNCHANGED nodeVars

\* the function given to setInterval at src/rfxcom.js:78 and :114 runs: connectTo.
\* emits: the driver emits "connecting" from within initialise()
IntervalFire(h) ==
    /\ liveIntervals[h] > 0
    /\ connectTo(h, rfx, inflight)
    /\ UNCHANGED <<pool, liveIntervals, held>>
    /\ lastOp' = Op("interval", h)
    /\ UNCHANGED nodeVars
    /\ \E emits \in BOOLEAN :
          lastBroadcast' =
              IF emits /\ rfx[h].listening
              THEN Broadcast(rfx[h].device, "connecting...",
                             pool[rfx[h].device].references, held)
              ELSE NoBroadcast

\* the "connecting" listener
OnConnecting(h) ==
    /\ rfx[h].listening
    /\ ~rfx[h].connected
    /\ lastBroadcast' = Broadcast(rfx[h].device, "connecting...",
                                  pool[rfx[h].device].references, held)
    /\ lastOp' = Op("connecting", h)
    /\ UNCHANGED nodeVars
    /\ UNCHANGED <<pool, rfx, inflight, liveIntervals, held>>

\* the listeners keeping one timer for all ports, as a module-level variable would
armInterval_sharedTimer(h) ==
    IF \A p \in Ports : pool[p].intervalTimer = FALSE
    THEN /\ pool' = [pool EXCEPT ![rfx[h].device].intervalTimer = TRUE]
         /\ liveIntervals' = [liveIntervals EXCEPT ![h] = @ + 1]
    ELSE UNCHANGED <<pool, liveIntervals>>

\* if (pool[rfxtrx.device].intervalTimer === null) { ... = setInterval(...) }
armInterval(h) ==
    IF pool[rfx[h].device].intervalTimer = FALSE
    THEN /\ pool' = [pool EXCEPT ![rfx[h].device].intervalTimer = TRUE]
         /\ liveIntervals' = [liveIntervals EXCEPT ![h] = @ + 1]
    ELSE UNCHANGED <<pool, liveIntervals>>

\* the "connectfailed" listener.  The attempt that failed is over: its callback will
\* not run; whether the driver still counts as initialising is the driver's choice
OnConnectFailed(h, init) ==
    /\ rfx[h].listening
    /\ ~rfx[h].connected
    /\ armInterval(h)
    /\ rfx' = [rfx EXCEPT ![h].initialising = init]
    /\ inflight' = [inflight EXCEPT ![h] = IF @ > 0 THEN @ - 1 ELSE 0]
    /\ lastOp' = Op("connectfailed", h)
    /\ UNCHANGED nodeVars
    /\ lastBroadcast' = NoBroadcast
    /\ UNCHANGED held

\* showConnectionStatus(node) for a node whose rfxtrx is connected or not
StatusText(connected) == IF connected THEN "OK" ELSE "disconnected"

\* the "status" listener: the status message arrives over the open serial port
OnStatus(h) ==
    /\ rfx[h].listening
    /\ rfx' = [rfx EXCEPT ![h].connected = TRUE]
    /\ lastBroadcast' = Broadcast(rfx[h].device, StatusText(rfx'[h].connected),
                                  pool[rfx[h].device].references, held)
    /\ lastOp' = Op("status", h)
    /\ UNCHANGED nodeVars
    /\ UNCHANGED <<pool, inflight, liveIntervals, held>>

\* the "disconnect" listener: the driver has lost the serial port
OnDisconnect(h, init) ==
    /\ rfx[h].listening
    /\ rfx[h].connected
    /\ rfx' = [rfx EXCEPT ![h].connected = FALSE, ![h].initialising = init]
    /\ armInterval(h)
    /\ lastBroadcast' = Broadcast(rfx[h].device, StatusText(rfx'[h].connected),
                                  pool[rfx[h].device].references, held)
    /\ lastOp' = Op("disconnect", h)
    /\ UNCHANGED nodeVars
    /\ UNCHANGED <<inflight, held>>

\* the callback given to rfxtrx.initialise runs: the handshake has succeeded.
\* pool[rfxtrx.device] is looked up when the callback runs; reading intervalTimer of
\* an entry that is gone throws a TypeError
InitCallback(h) ==
    /\ inflight[h] > 0
    /\ inflight' = [inflight EXCEPT ![h] = @ - 1]
    /\ rfx' = IF rfx[h].closed THEN rfx
              ELSE [rfx EXCEPT ![h].connected = TRUE, ![h].initialising = FALSE]
    /\ IF ~HasEntry(rfx[h].device)
       THEN UNCHANGED <<pool, liveIntervals>>
       ELSE IF pool[rfx[h].device].intervalTimer
       THEN /\ pool' = [pool EXCEPT ![rfx[h].device].intervalTimer = FALSE]
            /\ liveIntervals' =
                  [liveIntervals EXCEPT ![pool[rfx[h].device].rfxtrx] = @ - 1]
       ELSE UNCHANGED <<pool, liveIntervals>>
    /\ lastOp' = Op(IF HasEntry(rfx[h].device) THEN "connected" ELSE "threw", h)
    /\ UNCHANGED nodeVars
    /\ lastBroadcast' = NoBroadcast
    /\ UNCHANGED held

\* ------------------------------------------------------- the output nodes
\* the packet families of the driver and the keys each one's table rfxcom[packetType]
\* holds: the family's protocol names, and the subtype numbers, which the table maps
\* back to the names (rfxcom.lighting1[evt.subtype], src/rfxcom.js:307); every family
\* has a subtype 0
rfxcomNames(packetType) ==
    CASE packetType = "lighting1" -> {"ARC", "0"}
      [] packetType = "lighting2" -> {"AC", "0"}
      [] packetType = "lighting4" -> {"PT2262", "0"}
      [] packetType = "rawtx" -> {"RAW", "0"}
      [] packetType = "fan" -> {"NOVY", "LUCCI_AIR", "0"}
      [] OTHER -> {"0"}

\* the methods the driver's transmitter of a packet family has
HasMethod(packetType, method) ==
    CASE packetType = "lighting1" -> method \in {"switchOn", "switchOff"}
      [] packetType = "lighting2" -> method \in {"switchOn", "switchOff", "setLevel"}
      [] packetType = "lighting4" -> method = "sendData"
      [] packetType = "rawtx" -> method = "sendMessage"
      [] OTHER -> FALSE

LightsOutPacketTypes ==
    <<"lighting1", "lighting2", "lighting3", "lighting5", "lighting6", "homeConfort",
      "security1", "fan", "hunterFan">>

\* transmitterPacketTypes.forEach(...): every family holding the name assigns the
\* transmitter, so the last one that holds it is the one left in the cache
RECURSIVE ScanPacketTypes(_, _, _)
ScanPacketTypes(packetTypes, protocol, found) ==
    IF packetTypes = <<>> THEN found
    ELSE ScanPacketTypes(Tail(packetTypes), protocol,
                         IF protocol \in rfxcomNames(Head(packetTypes))
                         THEN Head(packetTypes) ELSE found)

\* getRfxcomSubtype replacing the whole cache when it does not find the name
getRfxcomSubtype_clobbers(tx, protocol, packetTypes) ==
    IF tx[protocol] = ""
    THEN IF ScanPacketTypes(packetTypes, protocol, "") = ""
         THEN [n \in ProtocolNames |-> "unknown"]
         ELSE [tx EXCEPT ![protocol] = ScanPacketTypes(packetTypes, protocol, "")]
    ELSE tx

\* getRfxcomSubtype caching a transmitter of no family for a name it does not find
getRfxcomSubtype_cachesUnknown(tx, protocol, packetTypes) ==
    IF tx[protocol] = ""
    THEN [tx EXCEPT ![protocol] =
             IF ScanPacketTypes(packetTypes, protocol, "") = "" THEN "unknown"
             ELSE ScanPacketTypes(packetTypes, protocol, "")]
    ELSE tx

\* getRfxcomSubtype scanning the families also for a name that is cached
getRfxcomSubtype_alwaysScans(tx, protocol, packetTypes) ==
    [tx EXCEPT ![protocol] = ScanPacketTypes(packetTypes, protocol, "")]

\* getRfxcomSubtype(rfxcomObject, protocolName, transmitterPacketTypes): the
\* transmitters of the connection afterwards; subtype is -1 iff the name is not in it
getRfxcomSubtype(tx, protocol, packetTypes) ==
    IF tx[protocol] = ""
    THEN [tx EXCEPT ![protocol] = ScanPacketTypes(packetTypes, protocol, "")]
    ELSE tx

\* the value rfxcom[packetType][name] of the driver's table
Subtype(packetType, name) == [packetType |-> packetType, name |-> name]

\* the return value -1
Minus1 == Subtype("", "")

\* no getRfxcomSubtype call was made by the last step
NoCall == [protocol |-> "", subtype |-> Minus1, constructed |-> 0, before |-> "",
           after |-> "", matching |-> <<>>]

\* one getRfxcomSubtype call: the entry of the name before and after it, the families
\* of the list whose table holds the name, the transmitters it constructed (one for
\* each such family when the name was not cached) and the subtype it returned (that
\* of the transmitter left in the cache, -1 when there is none)
Call(tx, protocol, packetTypes) ==
    LET after == getRfxcomSubtype(tx, protocol, packetTypes)[protocol]
        matching == SelectSeq(packetTypes, LAMBDA pt : protocol \in rfxcomNames(pt))
    IN  [protocol |-> protocol,
         subtype |-> IF after = "" THEN Minus1 ELSE Subtype(after, protocol),
         constructed |-> IF tx[protocol] = "" THEN Len(matching) ELSE 0,
         before |-> tx[protocol], after |-> after, matching |-> matching]

\* the transmitterPacketTypes lists the nodes give to getRfxcomSubtype
PacketTypeLists ==
    {<<"lighting4">>, <<"rawtx">>, <<"security1">>, LightsOutPacketTypes,
     <<"fan", "hunterFan">>, <<"lighting1", "chime1">>, <<"radiator1">>,
     <<"thermostat1", "thermostat2", "thermostat3", "thermostat4">>,
     <<"blinds1", "blinds2", "curtain1", "lighting5", "rfy">>}

\* a node calls getRfxcomSubtype(node.rfxtrx, protocolName, transmitterPacketTypes)
GetRfxcomSubtypeCall(h, protocol, packetTypes) ==
    /\ rfx[h].device # "" /\ ~rfx[h].closed
    /\ transmitters' = [transmitters EXCEPT ![h] = getRfxcomSubtype(@, protocol, packetTypes)]
    /\ lastCall' = Call(transmitters[h], protocol, packetTypes)
    /\ lastOp' = Op("call", h)
    /\ lastBroadcast' = NoBroadcast
    /\ UNCHANGED <<poolVars, held, closed, outNode, retransmissions, timers, invoked, evaluated, inVars,
                   detVars>>

\* path[0].trim().replace(/ +/g, '_').toUpperCase() of stringToParts(topic)
protocolNameOf(topic) ==
    CASE topic \in {"ARC/A/1", "arc/A/1"} -> "ARC"
      [] topic = "FOO/1" -> "FOO"
      [] topic = "NOVY/0x1" -> "NOVY"
      [] topic = "LUCCI_AIR/0x1" -> "LUCCI_AIR"

\* deviceAddress.concat(unitAddress) of stringToParts(topic) at the lights node: the
\* parts after the first as they are written, the last one as a decimal integer
addressOf(topic) ==
    CASE topic \in {"ARC/A/1", "arc/A/1"} -> <<"A", 1>>
      [] OTHER -> <<1>>

\* ------------------------------------------- the lights node's command parsing
\* A payload is the sequence of its tokens, lower-cased (the patterns are /.../i)
\* and separated by blanks: a word, an integer ("#"), a decimal number of n/100
\* ("#.") or, alone, a payload that is not a string ("=1", "=0", "=true", "=false")
Word(w) == [w |-> w, n |-> 0]
Num(n) == [w |-> "#", n |-> n]
Dec(h) == [w |-> "#.", n |-> h]

\* the words of the payloads: none contains another, so that a pattern made of
\* words matches a payload exactly when one of the words is a token of it
Words ==
    {"dim", "bright", "level", "on", "off", "mood", "scene", "room", "toggle",
     "program", "+", "-", "%", "xyzzy"}
NotStrings == {"=1", "=0", "=true", "=false"}

\* /w1|w2|.../i.test(payload)
hasWord(payload, ws) == \E i \in 1..Len(payload) : payload[i].w \in ws
\* /[0-9]+/.test(payload)
hasDigits(payload) == \E i \in 1..Len(payload) : payload[i].w \in {"#", "#."}
\* /a.*b/i.test(payload)
wordThen(payload, a, b) ==
    \E i, j \in 1..Len(payload) : i < j /\ payload[i].w = a /\ payload[j].w = b
\* the places where /w *([0-9]+)/i matches: the word, then a number
numberAfter(payload, w) ==
    {i \in 1..Len(payload) - 1 : payload[i].w = w /\ payload[i + 1].w = "#"}
\* the least element of a non-empty set of positions: exec() returns the first match
First(S) == CHOOSE i \in S : \A j \in S : i <= j
\* /[0-9] *%/ matches: a number directly followed by %
percentSign(payload) ==
    \E i \in 1..Len(payload) - 1 : payload[i].w \in {"#", "#."} /\ payload[i + 1].w = "%"
\* /dim|bright|level|%|[0-9]\.|\.[0-9]/i.test(payload)
dimPattern(payload) == hasWord(payload, {"dim", "bright", "level", "%", "#."})

\* not a number
NaN == -1
\* a token's value, in units of 1/10000
units(t) ==
    CASE t.w = "#" -> 10000 * t.n
      [] t.w = "#." -> 100 * t.n
      [] t.w \in {"=1", "=true"} -> 10000
      [] t.w \in {"=0", "=false"} -> 0
      [] OTHER -> NaN
\* (payload.value || payload)/100 of SetPercentageRequest: a number only when the
\* whole payload is one, and 0 for the empty string
divide100(payload) ==
    IF payload = <<>> THEN 0
    ELSE IF Len(payload) = 1 /\ units(payload[1]) # NaN THEN units(payload[1]) \div 100
    ELSE NaN
\* parseFloat of the first match of /[0-9]+(\.[0-9]*)?/
firstNumber(payload) ==
    LET S == {i \in 1..Len(payload) : payload[i].w \in {"#", "#."}}
    IN  IF S = {} THEN NaN ELSE units(payload[First(S)])
\* a value passed on as it is
clamp_none(value) == value

\* Math.max(0, Math.min(1, value)): NaN stays NaN, and no value is negative
clamp(value) == IF value = NaN THEN NaN ELSE IF value > 10000 THEN 10000 ELSE value
\* a rounding that takes the ends of an empty range to be 0
roundLevel_emptyIsZero(value, levelRange) ==
    IF value = NaN THEN NaN
    ELSE IF levelRange = <<>> THEN 0
    ELSE levelRange[1] + (2 * value * (levelRange[2] - levelRange[1]) + 10000) \div 20000

\* Math.round(levelRange[0] + value*(levelRange[1] - levelRange[0])): halves go up;
\* with an empty range both ends are undefined and the sum is NaN
roundLevel(value, levelRange) ==
    IF value = NaN \/ levelRange = <<>> THEN NaN
    ELSE levelRange[1] + (2 * value * (levelRange[2] - levelRange[1]) + 10000) \div 20000

\* the alexaCommand values that match /Percentage/i, and one that does not; "" is a
\* message without command
Percentages ==
    {"SetPercentageRequest", "IncrementPercentageRequest", "DecrementPercentageRequest"}
AlexaCommands == Percentages \cup {"TurnOnRequest", ""}

\* a dim level: an integer, "+", "-" or NaN
Level(n) == [kind |-> IF n = NaN THEN "NaN" ELSE "level", level |-> n]
Plus == [kind |-> "+", level |-> NaN]
Minus == [kind |-> "-", level |-> NaN]

\* parseDimLevel(payload, alexaCommand, levelRange); the handler never passes an
\* undefined levelRange
parseDimLevel(payload, alexaCommand, levelRange) ==
    IF alexaCommand # ""
    THEN CASE alexaCommand = "SetPercentageRequest" ->
                 IF levelRange = <<>>
                 THEN IF divide100(payload) # NaN /\ divide100(payload) >= 5000
                      THEN Plus ELSE Minus
                 ELSE Level(roundLevel(clamp(divide100(payload)), levelRange))
           [] alexaCommand = "IncrementPercentageRequest" -> Plus
           [] alexaCommand = "DecrementPercentageRequest" -> Minus
           [] OTHER -> Level(NaN)
    ELSE IF (levelRange = <<>> \/ ~hasDigits(payload)) /\ wordThen(payload, "dim", "+")
         THEN Plus
    ELSE IF (levelRange = <<>> \/ ~hasDigits(payload)) /\ hasWord(payload, {"dim"})
         THEN Minus
    ELSE IF (levelRange = <<>> \/ ~hasDigits(payload)) /\ wordThen(payload, "bright", "-")
         THEN Minus
    ELSE IF (levelRange = <<>> \/ ~hasDigits(payload)) /\ hasWord(payload, {"bright"})
         THEN Plus
    ELSE IF ~hasDigits(payload) /\ hasWord(payload, {"+"}) THEN Plus
    ELSE IF ~hasDigits(payload) /\ hasWord(payload, {"-"}) THEN Minus
    ELSE Level(roundLevel(clamp(IF percentSign(payload)
                                THEN IF firstNumber(payload) = NaN THEN NaN
                                     ELSE firstNumber(payload) \div 100
                                ELSE firstNumber(payload)),
                          levelRange))

\* payload.replace(match[0], ""): the payload without the tokens at i and i + 1
without(payload, i) == SubSeq(payload, 1, i - 1) \o SubSeq(payload, i + 2, Len(payload))

\* parseRoomNumber(payload)
parseRoomNumber(payload) ==
    IF numberAfter(payload, "room") = {}
    THEN [payload |-> payload, number |-> 1]
    ELSE [payload |-> without(payload, First(numberAfter(payload, "room"))),
          number |-> payload[First(numberAfter(payload, "room")) + 1].n]

\* transmitter.isSubtype(names): the transmitter of a protocol name has its subtype
isSubtype(protocolName, names) == protocolName \in names

\* what a call of the lights parseCommand does: the method it calls with its level,
\* mood or scene number and its room number, or the warning it gives ("payload" and
\* "dimming" name the payload, "mood" and "scene" say that the number is missing)
Invoke(method, number, room) ==
    [method |-> method, number |-> number, room |-> room, warning |-> ""]
Warn(warning) == [method |-> "", number |-> NaN, room |-> NaN, warning |-> warning]

FanLights ==
    {"HUNTER_FAN", "SIEMENS_SF01", "LUCCI_AIR", "WESTINGHOUSE_7226640", "CASAFAN",
     "LUCCI_AIR_DC", "FT1211R", "LUCCI_AIR_DCII", "NOVY"}

\* parseCommand testing the on pattern before the dimming pattern
lightsParseCommand_onBeforeDimming(protocolName, payload, alexaCommand, levelRange) ==
    IF hasWord(payload, {"on", "=1", "=true"}) THEN Invoke("switchOn", NaN, NaN)
    ELSE IF dimPattern(payload) \/ alexaCommand \in Percentages
    THEN LET level == parseDimLevel(parseRoomNumber(payload).payload, alexaCommand, levelRange)
         IN  CASE level.kind = "level" -> Invoke("setLevel", level.level, NaN)
               [] level.kind = "+" -> Invoke("increaseLevel", NaN, parseRoomNumber(payload).number)
               [] level.kind = "-" -> Invoke("decreaseLevel", NaN, parseRoomNumber(payload).number)
               [] OTHER -> Warn("dimming")
    ELSE IF hasWord(payload, {"off", "=0", "=false"}) THEN Invoke("switchOff", NaN, NaN)
    ELSE Warn("payload")

\* the lights node's parseCommand(protocolName, address, payload, alexaCommand,
\* levelRange), the branches in the order of the code
lightsParseCommand(protocolName, payload, alexaCommand, levelRange) ==
    IF dimPattern(payload) \/ alexaCommand \in Percentages
    THEN LET room == parseRoomNumber(payload)
             level == parseDimLevel(room.payload, alexaCommand, levelRange)
         IN  CASE level.kind = "level" -> Invoke("setLevel", level.level, NaN)
               [] level.kind = "+" -> Invoke("increaseLevel", NaN, room.number)
               [] level.kind = "-" -> Invoke("decreaseLevel", NaN, room.number)
               [] OTHER -> Warn("dimming")
    ELSE IF hasWord(payload, {"on", "=1", "=true"})
    THEN IF isSubtype(protocolName, {"X10_SECURITY", "FALMEC"})
         THEN Invoke("switchLightOn", NaN, NaN) ELSE Invoke("switchOn", NaN, NaN)
    ELSE IF hasWord(payload, {"off", "=0", "=false"})
    THEN IF isSubtype(protocolName, {"X10_SECURITY", "FALMEC"})
         THEN Invoke("switchLightOff", NaN, NaN) ELSE Invoke("switchOff", NaN, NaN)
    ELSE IF hasWord(payload, {"mood"})
    THEN IF numberAfter(payload, "mood") # {}
         THEN Invoke("setMood", payload[First(numberAfter(payload, "mood")) + 1].n, NaN)
         ELSE Warn("mood")
    ELSE IF hasWord(payload, {"scene"})
    THEN LET room == parseRoomNumber(payload) IN
         IF numberAfter(room.payload, "scene") # {}
         THEN Invoke("setScene",
                     room.payload[First(numberAfter(room.payload, "scene")) + 1].n,
                     room.number)
         ELSE Warn("scene")
    ELSE IF hasWord(payload, {"toggle"})
    THEN IF isSubtype(protocolName, FanLights)
         THEN Invoke("toggleLightOnOff", NaN, NaN) ELSE Invoke("toggleOnOff", NaN, NaN)
    ELSE IF hasWord(payload, {"program"}) THEN Invoke("program", NaN, NaN)
    ELSE Warn("payload")

\* the level ranges the lights node's input handler passes
LevelRanges == {<<>>, <<0, 15>>, <<0, 10>>, <<0, 31>>, <<1, 8>>, <<1, 3>>, <<1, 6>>}
\* protocol names with the three ways of switching and toggling
CmdProtocols == {"ARC", "X10_SECURITY", "NOVY"}
\* payloads "p%"
PercentPayloads == {<<Num(p), Word("%")>> : p \in 0..MaxPercent}
\* the payloads given to parseCommand: the strings of up to MaxTokens words and
\* integers, the payloads that are no strings, decimal numbers and percentages
CmdTokens == {Word(w) : w \in Words} \cup {Num(1), Num(50)}
CmdPayloads ==
    UNION {[1..n -> CmdTokens] : n \in 0..MaxTokens}
        \cup {<<Word(w)>> : w \in NotStrings}
        \cup {<<Dec(50)>>, <<Word("level"), Dec(50)>>}
        \cup PercentPayloads

\* the arguments of the calls of the lights node's parseCommand
ParseCommandArgs ==
    [protocolName : CmdProtocols, payload : CmdPayloads, alexaCommand : AlexaCommands,
     levelRange : LevelRanges]

\* the call of the lights node's parseCommand
ParseCommandCall ==
    /\ evaluated.fn = "parseCommand" /\ ~evaluated.done
    /\ evaluated' =
          [evaluated EXCEPT
              !.result = lightsParseCommand(evaluated.args.protocolName,
                                            evaluated.args.payload,
                                            evaluated.args.alexaCommand,
                                            evaluated.args.levelRange),
              !.done = TRUE]
    /\ UNCHANGED <<poolVars, held, lastOp, lastBroadcast, closed, transmitters, outNode,
                   retransmissions, timers, lastCall, invoked, inVars, detVars>>

\* the tokens of the payloads given to the output node
tokens(payload) ==
    CASE payload = "On" -> <<Word("on")>>
      [] payload = "Mood 1" -> <<Word("mood"), Num(1)>>
      [] OTHER -> <<Word("xyzzy")>>

\* parseCommand(protocolName, address, payload, ...): the transmitter method the
\* payload selects, "" when no pattern matches (node.warn, no call).  Of the payloads
\* here "On" matches /on/i, "Mood 1" matches /mood/i and /mood *([0-9]+)/i and none
\* of the earlier patterns, and "xyzzy" matches no pattern
parseCommand(payload) == lightsParseCommand("ARC", tokens(payload), "", <<>>).method

\* what a call of parseCommand does: "sent" (a transmitter method ran), "warned"
\* (node.warn, the function returns) or "threw" (the method is not a function)
CommandOutcome(packetType, payload) ==
    IF parseCommand(payload) = "" THEN "warned"
    ELSE IF HasMethod(packetType, parseCommand(payload)) THEN "sent"
    ELSE "threw"

\* the timers the output node has set so far
armedCount == Cardinality({i \in TimerIds : timers[i].state # "unset"})

\* node.clearRetransmission(handle): a timer that is not pending is left as it is
clearRetransmission(tm, id, how) ==
    IF id # 0 /\ tm[id].state = "live" THEN [tm EXCEPT ![id].state = how] ELSE tm

\* arm without the clearRetransmission of the entry the key already has
arm_keepsOldTimer(key, payload) ==
    /\ armedCount < MaxTimers
    /\ timers' = [timers EXCEPT ![armedCount + 1] =
                      [state |-> "live", key |-> key, payload |-> payload]]
    /\ retransmissions' = [retransmissions EXCEPT ![key] = armedCount + 1]

\* the retransmission arm of the input handlers: if the key has an entry clear its
\* timer, then store the timer that node.setRetransmission returns
arm(key, payload) ==
    /\ armedCount < MaxTimers
    /\ timers' = [clearRetransmission(timers, retransmissions[key], "replaced")
                     EXCEPT ![armedCount + 1] =
                         [state |-> "live", key |-> key, payload |-> payload]]
    /\ retransmissions' = [retransmissions EXCEPT ![key] = armedCount + 1]

\* the try block of the input handlers after the first send: arm when retransmission
\* is configured and the send did not throw
\* the arm code placed after the try block, so that it also runs after a send that threw
afterSend_armsAfterThrow(outcome, key, payload) ==
    IF outNode.retransmit # "none"
    THEN arm(key, payload)
    ELSE UNCHANGED <<retransmissions, timers>>

afterSend(outcome, key, payload) ==
    IF outcome # "threw" /\ outNode.retransmit # "none"
    THEN arm(key, payload)
    ELSE UNCHANGED <<retransmissions, timers>>

\* the output node is constructed
OutConstruct ==
    /\ held[OutNode] = 0
    /\ OutNode \notin closed
    /\ \E emits \in BOOLEAN : get(OutNode, rfxtrxPort[OutNode], emits)
    /\ LET h == pool'[rfxtrxPort[OutNode]].rfxtrx IN
       /\ transmitters' =
             [transmitters EXCEPT ![h] =
                 CASE outNode.kind = "rfx-PT2262-out" ->
                          getRfxcomSubtype(@, "PT2262", <<"lighting4">>)
                   [] outNode.kind = "rfx-raw-out" ->
                          getRfxcomSubtype(@, "RAW", <<"rawtx">>)
                   [] OTHER -> @]
       /\ lastCall' =
             CASE outNode.kind = "rfx-PT2262-out" ->
                      Call(transmitters[h], "PT2262", <<"lighting4">>)
               [] outNode.kind = "rfx-raw-out" -> Call(transmitters[h], "RAW", <<"rawtx">>)
               [] OTHER -> NoCall
       /\ lastOp' = Op("construct", h)
    /\ UNCHANGED <<closed, outNode, retransmissions, timers, invoked, evaluated, inVars, detVars>>

\* the "input" handler of rfx-lights-out; topic "" is a message without topic
LightsOutInput(topic, payload) ==
    /\ outNode.kind = "rfx-lights-out"
    /\ held[OutNode] > 0
    /\ LET h == pool[rfxtrxPort[OutNode]].rfxtrx IN
       IF topic = ""
       THEN /\ lastOp' = [Op("input", h) EXCEPT !.note = "missing topic"]
            /\ lastCall' = NoCall
            /\ invoked' = <<>>
            /\ UNCHANGED <<transmitters, retransmissions, timers>>
       ELSE LET protocol == protocolNameOf(topic)
                tx == getRfxcomSubtype(transmitters[h], protocol, LightsOutPacketTypes)
            IN  /\ transmitters' = [transmitters EXCEPT ![h] = tx]
                /\ lastCall' = Call(transmitters[h], protocol, LightsOutPacketTypes)
                /\ IF tx[protocol] = ""
                   THEN /\ lastOp' = [Op("input", h) EXCEPT !.note = "not supported"]
                        /\ invoked' = <<>>
                        /\ UNCHANGED <<retransmissions, timers>>
                   ELSE /\ afterSend(CommandOutcome(tx[protocol], payload), topic, payload)
                        /\ invoked' = IF CommandOutcome(tx[protocol], payload) = "sent"
                                      THEN <<parseCommand(payload)>> ELSE <<>>
                        /\ lastOp' = [Op("input", h) EXCEPT
                                         !.note = CommandOutcome(tx[protocol], payload)]
    /\ UNCHANGED evaluated
    /\ UNCHANGED <<pool, rfx, inflight, liveIntervals, held, lastBroadcast, closed, outNode,
                   inVars, detVars>>

\* the device list of the PT2262 and raw output nodes: topic and payload of its entries
DeviceList == {[device |-> "ARC/A/1", payload |-> "On"]}

\* the "input" handler of rfx-PT2262-out and of rfx-raw-out.  raw: the message has
\* raw.data; throws: the driver's sendData or sendMessage rejects the data.  A lookup
\* that finds no entry is warned about ("no data"); a message without topic or
\* without payload, and without raw data, is dropped with no warning
ListOutInput(topic, payload, raw, throws) ==
    /\ outNode.kind \in {"rfx-PT2262-out", "rfx-raw-out"}
    /\ held[OutNode] > 0
    /\ LET h == pool[rfxtrxPort[OutNode]].rfxtrx
           lookup == topic # "" /\ payload # ""
           found == lookup /\ [device |-> topic, payload |-> payload] \in DeviceList
           data == found \/ (~lookup /\ raw)
           key == IF topic = "" THEN "__none__" ELSE topic
       IN  /\ throws => data
           /\ IF data
              THEN afterSend(IF throws THEN "threw" ELSE "sent", key, "")
              ELSE UNCHANGED <<retransmissions, timers>>
           /\ invoked' = IF ~data THEN <<>>
                         ELSE IF outNode.kind = "rfx-PT2262-out" THEN <<"sendData">>
                         ELSE <<"sendMessage">>
           /\ lastOp' = [Op("input", h) EXCEPT
                            !.note = IF data THEN IF throws THEN "threw" ELSE "sent"
                                     ELSE IF lookup THEN "no data"
                                     ELSE IF topic = "" THEN "no topic"
                                     ELSE "no payload"]
    /\ UNCHANGED evaluated
    /\ UNCHANGED <<pool, rfx, inflight, liveIntervals, held, lastBroadcast, closed,
                   outNode, transmitters, lastCall, inVars, detVars>>

\* ------------------------------------------------------- the fan output node
\* msg.topic values given to the fan node ("" stands for no topic)
FanTopics == {"NOVY/0x1", "LUCCI_AIR/0x1", "FOO/1", ""}
\* msg.payload values given to the fan node: each one matches the pattern of one
\* branch of parseCommand and of no earlier branch, "xyzzy" matches none
FanPayloads == {"time 5", "on", "off", "reverse", "natural", "xyzzy"}
\* the methods parseCommand can call for these payloads
FanMethods ==
    {"toggleOnOff", "startTimer", "setSpeed", "increaseSpeed", "switchOff",
     "setFanDirection", "toggleFanDirection"}

\* the speedRange switch of the fan node's input handler
speedRange(protocolName) ==
    CASE protocolName = "LUCCI_AIR" -> <<0, 3>>
      [] OTHER -> <<>>

\* a call of a transmitter method: a method the transmitter lacks throws a TypeError
\* before anything is invoked
callMethod(method, has) ==
    IF method \in has
    THEN [invoked |-> <<method>>, outcome |-> "sent"]
    ELSE [invoked |-> <<>>, outcome |-> "threw"]

\* try { first } catch { second }
callWithFallback(first, second, has) ==
    IF first \in has THEN callMethod(first, has) ELSE callMethod(second, has)

\* the fan node's parseCommand(protocolName, address, payload, speedRange); has is
\* the set of methods the driver's transmitter of the protocol has
fanParseCommand(protocolName, payload, range, has) ==
    CASE payload = "time 5" ->
            IF protocolName = "NOVY"
            THEN IF "toggleOnOff" \in has
                 THEN [invoked |-> <<"toggleOnOff", "toggleOnOff">>, outcome |-> "sent"]
                 ELSE [invoked |-> <<>>, outcome |-> "threw"]
            ELSE callMethod("startTimer", has)
      [] payload = "on" ->
            callWithFallback("toggleOnOff",
                             IF Len(range) > 0 THEN "setSpeed" ELSE "increaseSpeed", has)
      [] payload = "off" -> callMethod("switchOff", has)
      [] payload = "reverse" -> callWithFallback("setFanDirection", "toggleFanDirection", has)
      [] payload = "natural" -> callMethod("setFanDirection", has)
      [] OTHER -> [invoked |-> <<>>, outcome |-> "warned"]

\* the "input" handler of rfx-fan-out
FanOutInput(topic, payload, has) ==
    /\ outNode.kind = "rfx-fan-out"
    /\ held[OutNode] > 0
    /\ LET h == pool[rfxtrxPort[OutNode]].rfxtrx IN
       IF topic = ""
       THEN /\ lastOp' = [Op("input", h) EXCEPT !.note = "missing topic"]
            /\ lastCall' = NoCall
            /\ invoked' = <<>>
            /\ transmitters' = transmitters
       ELSE LET protocol == protocolNameOf(topic)
                tx == getRfxcomSubtype(transmitters[h], protocol, <<"fan", "hunterFan">>)
                done == fanParseCommand(protocol, payload, speedRange(protocol), has)
            IN  /\ transmitters' = [transmitters EXCEPT ![h] = tx]
                /\ lastCall' = Call(transmitters[h], protocol, <<"fan", "hunterFan">>)
                /\ IF tx[protocol] = ""
                   THEN /\ lastOp' = [Op("input", h) EXCEPT !.note = "not supported"]
                        /\ invoked' = <<>>
                   ELSE /\ lastOp' = [Op("input", h) EXCEPT !.note = done.outcome]
                        /\ invoked' = done.invoked
    /\ UNCHANGED evaluated
    /\ UNCHANGED <<pool, rfx, inflight, liveIntervals, held, lastBroadcast, closed, outNode,
                   retransmissions, timers, inVars, detVars>>

\* a later timer of the same key exists: the command of timer id is not the last one
Superseded(id) ==
    \E j \in TimerIds : j > id /\ timers[j].state # "unset" /\ timers[j].key = timers[id].key

\* what the send of lastCommand() does: the lights node calls parseCommand with the
\* arguments of the first send, the other two call the driver with the data it
\* accepted on the first send
ResendOutcome(id) ==
    IF outNode.kind = "rfx-lights-out"
    THEN CommandOutcome(transmitters[pool[rfxtrxPort[OutNode]].rfxtrx]
                            [protocolNameOf(timers[id].key)],
                        timers[id].payload)
    ELSE "sent"

\* the one-shot lastCommand() deleting no entry
RetransmissionFire_keepsEntry(id, throws) ==
    /\ timers[id].state = "live"
    /\ throws = (ResendOutcome(id) = "threw")
    /\ timers' = IF outNode.retransmit = "once"
                 THEN [timers EXCEPT ![id].state = "fired"] ELSE timers
    /\ retransmissions' = retransmissions
    /\ lastOp' = Op("resend", 0)
    /\ UNCHANGED <<pool, rfx, inflight, liveIntervals, held, lastBroadcast, closed,
                   outNode, transmitters, lastCall, invoked, evaluated, inVars, detVars>>

\* a retransmission timer runs lastCommand().  throws: the send throws, which leaves
\* the function before the entry is deleted
RetransmissionFire(id, throws) ==
    /\ timers[id].state = "live"
    /\ throws = (ResendOutcome(id) = "threw")
    /\ LET once == outNode.retransmit = "once" IN
       /\ timers' = IF once THEN [timers EXCEPT ![id].state = "fired"] ELSE timers
       /\ retransmissions' =
             IF once /\ ~throws
             THEN [retransmissions EXCEPT ![timers[id].key] = 0]
             ELSE retransmissions
    /\ lastOp' = [Op("resend", 0) EXCEPT
                     !.note = IF throws THEN "uncaught"
                              ELSE IF OutNode \in closed THEN "after close"
                              ELSE IF Superseded(id) THEN "superseded"
                              ELSE "last command"]
    /\ UNCHANGED <<pool, rfx, inflight, liveIntervals, held, lastBroadcast, closed,
                   outNode, transmitters, lastCall, invoked, evaluated, inVars, detVars>>

\* purgeTimers deleting the entries without clearing their timers
purgeTimers_deletesOnly ==
    /\ timers' = timers
    /\ retransmissions' = [k \in Keys |-> 0]

\* purgeTimers(node): clear the timer of every entry and delete the entry
purgeTimers ==
    /\ timers' = [i \in TimerIds |->
                     IF \E k \in Keys : retransmissions[k] = i
                     THEN clearRetransmission(timers, i, "purged")[i]
                     ELSE timers[i]]
    /\ retransmissions' = [k \in Keys |-> 0]

\* the "close" handler of the output nodes
OutClose ==
    /\ held[OutNode] > 0
    /\ OutNode \notin closed
    /\ purgeTimers
    /\ releasePort(OutNode)
    /\ closed' = closed \cup {OutNode}
    /\ lastOp' = Op("close", pool[rfxtrxPort[OutNode]].rfxtrx)
    /\ UNCHANGED <<outNode, transmitters, lastCall, invoked, evaluated, inVars, detVars>>

\* ------------------------------------------------------------ input nodes
L(event, handler) == [event |-> event, handler |-> handler]

\* the node.rfxtrx.on(event, handler) calls of a node type's constructor
registered(type) ==
    CASE type = "rfx-lights-in" ->
            {L("lighting1", "lighting1Handler"), L("lighting2", "lighting2Handler"),
             L("lighting5", "lighting5Handler"), L("lighting6", "lighting6Handler"),
             L("security1", "security1Handler"), L("hunterfan", "hunterFanHandler"),
             L("fan", "fanHandler")}
      [] type = "rfx-PT2262-in" -> {L("lighting4", "lighting4Handler")}
      [] type = "rfx-sensor" ->
            {L("bbq1", "bbq1Handler"), L("temperaturerain1", "temperaturerainHandler"),
             L("temperature1", "temperatureHandler"), L("humidity1", "humidityHandler"),
             L("temperaturehumidity1", "temperaturehumidityHandler"),
             L("temphumbaro1", "temphumbaroHandler"),
             L("thermostat1", "thermostat1Handler"), L("rain1", "rainHandler"),
             L("wind1", "windHandler"), L("uv1", "uvHandler")}
      [] type = "rfx-meter" ->
            {L("elec1", "elec1Handler"), L("elec23", "elec23Handler"),
             L("elec4", "elec1Handler"), L("elec5", "elec1Handler"),
             L("rfxmeter", "rfxmeterHandler"),
             L("cartelectronic", "cartelectronicHandler")}
      [] type = "rfx-detector-in" -> {L("security1", "security1Handler")}
      [] type = "rfx-doorbell-in" ->
            {L("lighting1", "lighting1Handler"), L("chime1", "chime1Handler")}
      [] type = "rfx-blinds-in" ->
            {L("blinds1", "blinds1Handler"), L("lighting5", "lighting5Handler")}
      [] OTHER -> {}

\* the node.rfxtrx.removeListener(event, handler) calls of a node type's "close" handler
removed(type) ==
    CASE type = "rfx-meter" ->
            {L("elec1", "elec1Handler"), L("elec23", "elec1Handler"),
             L("elec4", "elec1Handler"), L("elec5", "elec1Handler"),
             L("rfxmeter", "rfxmeterHandler"),
             L("cartelectronic", "cartelectronicHandler")}
      [] OTHER -> registered(type)

\* the names of the events some input node listens to
EventNames == {l.event : l \in UNION {registered(t) : t \in InTypes}}

\* the listeners of a node: each handler is a property of the node that registered it
Of(node, ls) == {[event |-> l.event, node |-> node, handler |-> l.handler] : l \in ls}

\* the constructor of an input node, from the get call to the registrations
InConstruct(node) ==
    /\ nodeType[node] \in InTypes
    /\ held[node] = 0
    /\ node \notin closed
    /\ \E emits \in BOOLEAN : get(node, rfxtrxPort[node], emits)
    /\ LET h == pool'[rfxtrxPort[node]].rfxtrx
       IN  /\ listeners' = [listeners EXCEPT ![h] = @ \cup Of(node, registered(nodeType[node]))]
           /\ lastOp' = Op("get", h)
    /\ sent' = {}
    /\ UNCHANGED <<closed, nodeType, outVars, detVars>>

\* the "close" handler of an input node: the removeListener calls, then releasePort,
\* whose release calls removeAllListeners when the last reference is gone
InClose(node) ==
    /\ nodeType[node] \in InTypes
    /\ held[node] > 0
    /\ node \notin closed
    /\ releasePort(node)
    /\ LET h == pool[rfxtrxPort[node]].rfxtrx
       IN  /\ listeners' = [listeners EXCEPT ![h] =
                               IF HasEntry(rfxtrxPort[node])'
                               THEN @ \ Of(node, removed(nodeType[node]))
                               ELSE {}]
           /\ lastOp' = Op("close", h)
    /\ closed' = closed \cup {node}
    /\ sent' = {}
    /\ UNCHANGED <<nodeType, outVars, detVars>>

\* the driver emits a data event on a connected RfxCom object: every listener of the
\* event runs; passing are the nodes whose handler finds the event to pass its filters
\* (signal level, topic, subtype) and calls node.send
DataEvent(h, event) ==
    /\ rfx[h].listening /\ rfx[h].connected
    /\ \E l \in listeners[h] : l.event = event
    /\ \E passing \in SUBSET {l.node : l \in {m \in listeners[h] : m.event = event}} :
          sent' = {[node |-> n, payload |-> event] : n \in passing}
    /\ lastOp' = Op("event", h)
    /\ lastBroadcast' = NoBroadcast
    /\ UNCHANGED <<poolVars, held, closed, nodeType, listeners, outVars, detVars>>

\* ------------------------------------------------------- the detector node
\* A topic string is the sequence of its segments between the slashes.  A segment
\* is a protocol name or a text; a text is the sequence of its characters, each one
\* its digit value (0-9, then 10-35 for the letters a-z of either case) or 36 for +
Name(str) == [name |-> str, text |-> <<>>]
Text(chars) == [name |-> "", text |-> chars]
Empty == [name |-> "", text |-> <<>>]
\* the character x
CharX == 33
\* the character +
CharPlus == 36
\* the texts "all", "group" and "NaN"
TextAll == <<10, 21, 21>>
TextGroup == <<16, 27, 24, 30, 25>>
TextNaN == <<23, 10, 23>>

\* str.split('/') of the topic strings of the detector flow
split(str) ==
    CASE str = "X10_DOOR/0x1" -> <<Name("X10_DOOR"), Text(<<0, CharX, 1>>)>>
      [] str = "X10_DOOR/0x2" -> <<Name("X10_DOOR"), Text(<<0, CharX, 2>>)>>
      [] str = "KD101/0x1" -> <<Name("KD101"), Text(<<0, CharX, 1>>)>>
      [] str = "x10 door/1" -> <<Name("x10 door"), Text(<<1>>)>>
      [] str = "kd101" -> <<Name("kd101")>>
      [] OTHER -> <<Empty>>

\* filter(part !== "")
IsPart(segment) == segment # Empty
nonEmpty(segments) == SelectSeq(segments, IsPart)

\* stringToParts(str): str.split('/') without the empty parts
stringToParts(str) == nonEmpty(split(str))

\* parts[0].trim().replace(/ +/g, '_').toUpperCase()
protocolPart(part) ==
    CASE part = "x10 door" -> "X10_DOOR"
      [] part = "kd101" -> "KD101"
      [] part = "ac" -> "AC"
      [] OTHER -> part

\* the value of the longest prefix of chars that are digits of the radix, from the
\* value acc of the digits before it; NaN when there is no digit at all
RECURSIVE digitsValue(_, _, _, _)
digitsValue(chars, radix, acc, any) ==
    IF chars # <<>> /\ Head(chars) < radix
    THEN digitsValue(Tail(chars), radix, acc * radix + Head(chars), TRUE)
    ELSE IF any THEN acc ELSE NaN

\* parseInt(text, radix): an optional sign, for radix 16 an optional 0x, then digits
parseInt(chars, radix) ==
    LET unsigned == IF chars # <<>> /\ Head(chars) = CharPlus THEN Tail(chars) ELSE chars
        digits == IF radix = 16 /\ Len(unsigned) >= 2 /\ unsigned[1] = 0
                     /\ unsigned[2] = CharX
                  THEN SubSeq(unsigned, 3, Len(unsigned)) ELSE unsigned
    IN  digitsValue(digits, radix, 0, FALSE)

\* /^[A-Z]$/i.test(text)
isLetter(chars) == Len(chars) = 1 /\ chars[1] >= 10 /\ chars[1] <= 35
\* text contains word
contains(chars, word) ==
    \E i \in 0..Len(chars) - Len(word) : SubSeq(chars, i + 1, i + Len(word)) = word
\* /^0+$|all|group|^\+$/i.test(text)
isWildcard(chars) ==
    \/ chars # <<>> /\ \A i \in 1..Len(chars) : chars[i] = 0
    \/ contains(chars, TextAll)
    \/ contains(chars, TextGroup)
    \/ chars = <<CharPlus>>

\* the rest of normaliseTopic, on the parts of the topic: the result has the
\* protocol name, then numbers, then the parts after the fourth as they are
normaliseParts(parts) ==
    LET second == IF isLetter(parts[2].text) THEN parseInt(parts[2].text, 36)
                  ELSE parseInt(parts[2].text, 16)
        third == IF isLetter(parts[3].text) THEN parseInt(parts[3].text, 36)
                 ELSE parseInt(parts[3].text, 10)
        fourth == parseInt(parts[4].text, 10)
        rest == [i \in 1..Len(parts) - 4 |-> parts[i + 4]]
    IN  IF Len(parts) = 0 THEN <<>>
        ELSE IF Len(parts) = 1 THEN <<protocolPart(parts[1].name)>>
        ELSE IF Len(parts) = 2 \/ isWildcard(parts[3].text)
             THEN <<protocolPart(parts[1].name), second>>
        ELSE IF Len(parts) = 3 \/ isWildcard(parts[4].text)
             THEN <<protocolPart(parts[1].name), second, third>>
        ELSE <<protocolPart(parts[1].name), second, third, fourth>> \o rest

\* normaliseTopic(rawTopic) of a topic string given by its segments
normalisePath(segments) == normaliseParts(nonEmpty(segments))

\* normaliseTopic(rawTopic) of the topic strings of the detector flow
normaliseTopic(rawTopic) == normalisePath(split(rawTopic))

\* a !== b is true of two NaN; the first parts are names, the next three numbers
differ(a, b, i) == IF i \in 2..4 THEN a # b \/ a = NaN ELSE a # b

\* checkTopic comparing the positions that both have
checkTopic_eitherWay(parts, pattern) ==
    \A i \in 1 .. Len(pattern) : i <= Len(parts) => ~differ(parts[i], pattern[i], i)

\* checkTopic demanding as many parts as the pattern has
checkTopic_equalLength(parts, pattern) ==
    /\ Len(parts) = Len(pattern)
    /\ \A i \in 1 .. Len(pattern) : ~differ(parts[i], pattern[i], i)

\* checkTopic(parts, pattern): parts starts with pattern; parts[i] of a shorter
\* parts is undefined and differs from every pattern[i]
checkTopic(parts, pattern) ==
    \A i \in 1 .. Len(pattern) : i <= Len(parts) /\ ~differ(parts[i], pattern[i], i)

normaliseAndCheckTopic(topic, pattern) == checkTopic(normaliseTopic(topic), pattern)

\* String(n) of a number that is no NaN: its decimal digits
RECURSIVE decimal(_)
decimal(n) == IF n < 10 THEN <<n>> ELSE decimal(n \div 10) \o <<n % 10>>

\* address.join('/'): the topic string of a normalised address
join(address) ==
    [i \in 1..Len(address) |->
        IF i = 1 THEN Name(address[1])
        ELSE IF address[i] = NaN THEN Text(TextNaN) ELSE Text(decimal(address[i]))]

\* the most parts of an address: protocol name, id, unit or group code, unit code
MaxParts == 4

\* texts of device ids, house codes and unit codes: "A", "1", "4", "10", "0x10",
\* "0", "all", "group", "+"
TopicTexts ==
    {<<10>>, <<1>>, <<4>>, <<1, 0>>, <<0, CharX, 1, 0>>, <<0>>, TextAll, TextGroup,
     <<CharPlus>>}
\* the path strings given to normaliseTopic: a protocol name and up to three texts,
\* with or without a slash at the start
TopicPaths ==
    LET paths == {<<Name(name)>> \o [i \in 1..n |-> Text(texts[i])] :
                     name \in {"AC", "ac", "x10 door"},
                     n \in 0..MaxParts - 1, texts \in [1..MaxParts - 1 -> TopicTexts]}
    IN  paths \cup {<<Empty>> \o path : path \in paths}

\* normaliseTopic applied to a path string, and again to the joined result
NormaliseTwice ==
    /\ evaluated.fn = "normaliseTopic" /\ ~evaluated.done
    /\ evaluated' =
          [evaluated EXCEPT
              !.result = [once |-> normalisePath(evaluated.args),
                          twice |-> normalisePath(join(normalisePath(evaluated.args)))],
              !.done = TRUE]
    /\ UNCHANGED <<poolVars, held, lastOp, lastBroadcast, closed, transmitters, outNode,
                   retransmissions, timers, lastCall, invoked, inVars, detVars>>

\* the topics the handlers of the input nodes build from an event: the protocol
\* label, then the id or house code ("A", "0x1", "1", "4"), then a group or unit
\* code ("A", "1", "4", "0"), then a unit code ("1", "4", "0")
EventTexts(i) ==
    CASE i = 1 -> {<<10>>, <<0, CharX, 1>>, <<1>>, <<4>>}
      [] i = 2 -> {<<10>>, <<1>>, <<4>>, <<0>>}
      [] OTHER -> {<<1>>, <<4>>, <<0>>}
EventPaths ==
    {<<Name("AC")>> \o [i \in 1..n |-> Text(texts[i])] :
        n \in 1..MaxParts - 1,
        texts \in {t \in [1..MaxParts - 1 -> UNION {EventTexts(i) : i \in 1..MaxParts - 1}] :
                      \A i \in 1..MaxParts - 1 : t[i] \in EventTexts(i)}}
\* the topics an input node is configured with: as the events' ones, and "all" for
\* a group or unit code
PatternTexts(i) == IF i = 1 THEN EventTexts(i) ELSE EventTexts(i) \cup {TextAll}
PatternPaths ==
    {<<Name(name)>> \o [i \in 1..n |-> Text(texts[i])] :
        name \in {"AC", "ac", "ARC"},
        n \in 0..MaxParts - 1,
        texts \in {t \in [1..MaxParts - 1 -> UNION {PatternTexts(i) : i \in 1..MaxParts - 1}] :
                      \A i \in 1..MaxParts - 1 : t[i] \in PatternTexts(i)}}
        \cup {<<>>}

\* the test an input node's handler makes before it sends the message of an event:
\* node.topicSource === "all" || normaliseAndCheckTopic(msg.topic, node.topic), with
\* node.topic = normaliseTopic(n.topic)
forwards(topicSource, topic, configured) ==
    topicSource = "all" \/ checkTopic(normalisePath(topic), normalisePath(configured))

FilterEvent ==
    /\ evaluated.fn = "checkTopic" /\ ~evaluated.done
    /\ evaluated' =
          [evaluated EXCEPT
              !.result = forwards(evaluated.args.topicSource, evaluated.args.topic,
                                  evaluated.args.configured),
              !.done = TRUE]
    /\ UNCHANGED <<poolVars, held, lastOp, lastBroadcast, closed, transmitters, outNode,
                   retransmissions, timers, lastCall, invoked, inVars, detVars>>

\* ------------------------------------------- the fan node's speed commands
\* speedRange === [lo, hi]: an array is never the same object as a new array
sameArray(range, literal) == FALSE

\* the fan node's parseSpeed(payload, speedRange); /lo/ matches low and slow, /hi/
\* matches high, /ful/ matches full
parseSpeed(payload, range) ==
    IF (range = <<>> \/ ~hasDigits(payload)) /\ hasWord(payload, {"decr", "redu", "slow"})
    THEN Minus
    ELSE IF (range = <<>> \/ ~hasDigits(payload)) /\ hasWord(payload, {"incr", "fast"})
    THEN Plus
    ELSE IF ~hasDigits(payload) /\ hasWord(payload, {"+"}) THEN Plus
    ELSE IF ~hasDigits(payload) /\ hasWord(payload, {"-"}) THEN Minus
    ELSE IF sameArray(range, <<1, 3>>) /\ hasWord(payload, {"low", "slow"}) THEN Level(1)
    ELSE IF sameArray(range, <<1, 3>>) /\ hasWord(payload, {"med"}) THEN Level(2)
    ELSE IF sameArray(range, <<1, 3>>) /\ hasWord(payload, {"high"}) THEN Level(3)
    ELSE IF sameArray(range, <<1, 4>>) /\ hasWord(payload, {"full"}) THEN Level(4)
    ELSE IF firstNumber(payload) = NaN THEN Level(NaN)
    ELSE IF percentSign(payload)
    THEN LET value == clamp(firstNumber(payload) \div 100)
         IN  IF range = <<>> THEN Level(NaN)
             ELSE LET rounded == (2 * value * range[2] + 10000) \div 20000
                  IN  IF range[1] = 0 \/ rounded >= 1 THEN Level(rounded) ELSE Level(1)
    ELSE LET value == (firstNumber(payload) + 5000) \div 10000
         IN  IF range = <<>> THEN Level(value)
             ELSE IF value > range[2] THEN Level(range[2])
             ELSE IF value < range[1] THEN Level(range[1])
             ELSE Level(value)

\* /^ *\+ *$|^ *- *$|speed|slo|fast|lo|med|hi|ful|%|[0-9]\.|\.[0-9]/i.test(payload)
speedPattern(payload) ==
    \/ payload \in {<<Word("+")>>, <<Word("-")>>}
    \/ hasWord(payload, {"speed", "slow", "fast", "low", "med", "high", "full", "%", "#."})

\* the first branch of the fan node's parseCommand, taken when the payload matches
\* the speed pattern
speedCommand(payload, range) ==
    LET speed == parseSpeed(payload, range)
    IN  CASE speed.kind = "level" /\ speed.level # NaN -> Invoke("setSpeed", speed.level, NaN)
          [] speed.kind = "+" -> Invoke("increaseSpeed", NaN, NaN)
          [] speed.kind = "-" -> Invoke("decreaseSpeed", NaN, NaN)
          [] OTHER -> Warn("speed-set")

\* the speed ranges the input handler gives the protocols
SpeedRanges == {<<>>, <<1, 3>>, <<0, 3>>, <<1, 5>>, <<0, 4>>, <<0, 6>>, <<1, 4>>}
\* the payloads of up to MaxTokens words and numbers that match the speed pattern
SpeedTokens ==
    {Word(w) : w \in {"speed", "slow", "fast", "low", "med", "high", "full", "incr",
                      "decr", "+", "-", "%"}}
        \cup {Num(2), Num(50), Dec(250)}
SpeedPayloads ==
    {p \in UNION {[1..n -> SpeedTokens] : n \in 1..MaxTokens} : speedPattern(p)}

\* the fan node's parseCommand is called with a payload that matches the speed
\* pattern
SpeedCommandCall ==
    /\ evaluated.fn = "speedCommand" /\ ~evaluated.done
    /\ evaluated' =
          [evaluated EXCEPT
              !.result = speedCommand(evaluated.args.payload, evaluated.args.speedRange),
              !.done = TRUE]
    /\ UNCHANGED <<poolVars, held, lastOp, lastBroadcast, closed, transmitters, outNode,
                   retransmissions, timers, lastCall, invoked, inVars, detVars>>

\* ------------------------------------------- the address a lights-out node sends to
\* a part of the address given to the transmitter: a text of the topic as it was
\* written (the text <<10>> is the letter "A"), or a number
String(chars) == [kind |-> "string", chars |-> chars, number |-> NaN]
Number(n) == [kind |-> "number", chars |-> <<>>, number |-> n]

\* Number(str) of a text: decimal digits, or hexadecimal digits after 0x; Math.round
\* leaves it as it is
toNumber(chars) ==
    IF chars = <<>> THEN 0
    ELSE IF Len(chars) > 2 /\ chars[1] = 0 /\ chars[2] = CharX
            /\ \A i \in 3..Len(chars) : chars[i] < 16
         THEN digitsValue(SubSeq(chars, 3, Len(chars)), 16, 0, FALSE)
    ELSE IF \A i \in 1..Len(chars) : chars[i] < 10
         THEN digitsValue(chars, 10, 0, FALSE)
    ELSE NaN

\* parseUnitAddress(str) of a part of the path: 0 for all, group and +; a protocol
\* name is no number
parseUnitAddress(part) ==
    IF part.name # "" THEN NaN
    ELSE IF contains(part.text, TextAll) \/ contains(part.text, TextGroup)
            \/ contains(part.text, <<CharPlus>>)
         THEN 0
    ELSE toNumber(part.text)

\* the address with the unit code left as the text of the topic
lightsOutAddress_unitAsText(path, packetType) ==
    IF packetType \in {"hunterFan", "fan"}
    THEN IF Len(path) > 1 THEN <<String(path[2].text)>> ELSE <<>>
    ELSE [i \in 1..Len(path) - 1 |-> String(path[i + 1].text)]

\* deviceAddress.concat(unitAddress): path[1] alone for a fan, else the parts
\* between the first and the last as they are, then parseUnitAddress of the last
lightsOutAddress(path, packetType) ==
    IF packetType \in {"hunterFan", "fan"}
    THEN IF Len(path) > 1 THEN <<String(path[2].text)>> ELSE <<>>
    ELSE [i \in 1..Len(path) - 2 |-> String(path[i + 1].text)]
             \o <<Number(parseUnitAddress(path[Len(path)]))>>

\* the level range of the transmitter: the subtypes of the protocol names here are
\* neither KAMBROOK nor one of lighting5
levelRangeOf(packetType) ==
    CASE packetType = "lighting2" -> <<0, 15>>
      [] packetType = "lighting3" -> <<0, 10>>
      [] OTHER -> <<>>

\* the input handler of a lights-out node that does not retransmit: the warning
\* it gives, the protocol name it resolves and the transmitter methods it invokes
\* with their addresses
lightsOutInput(node, msg) ==
    LET path == IF node.topicSource = "node" THEN nonEmpty(node.topic)
                ELSE nonEmpty(msg.topic)
        protocolName == protocolPart(path[1].name)
        packetType == ScanPacketTypes(LightsOutPacketTypes, protocolName, "")
        address == lightsOutAddress(path, packetType)
        command == lightsParseCommand(protocolName, msg.payload, "",
                                      levelRangeOf(packetType))
    IN  IF Len(path) = 0
        THEN [warning |-> "missing topic", protocolName |-> "", calls |-> <<>>]
        ELSE IF packetType = ""
        THEN [warning |-> "not supported", protocolName |-> protocolName, calls |-> <<>>]
        ELSE IF command.method = ""
        THEN [warning |-> command.warning, protocolName |-> protocolName, calls |-> <<>>]
        ELSE IF ~HasMethod(packetType, command.method)
        THEN [warning |-> "threw", protocolName |-> protocolName, calls |-> <<>>]
        ELSE [warning |-> "", protocolName |-> protocolName,
              calls |-> <<[method |-> command.method, address |-> address,
                           number |-> command.number]>>]

\* the topics of a lights-out node and of its messages: none, "ARC/A/1",
\* "/ARC/A/1", "ARC/A/all", "ARC/A", "ARC", "ac/0x1/4", "AC/0x1/0x10", "NOVY/0x1",
\* "FOO/1"
OutPaths ==
    {<<>>,
     <<Name("ARC"), Text(<<10>>), Text(<<1>>)>>,
     <<Empty, Name("ARC"), Text(<<10>>), Text(<<1>>)>>,
     <<Name("ARC"), Text(<<10>>), Text(TextAll)>>,
     <<Name("ARC"), Text(<<10>>)>>,
     <<Name("ARC")>>,
     <<Name("ac"), Text(<<0, CharX, 1>>), Text(<<4>>)>>,
     <<Name("AC"), Text(<<0, CharX, 1>>), Text(<<0, CharX, 1, 0>>)>>,
     <<Name("NOVY"), Text(<<0, CharX, 1>>)>>,
     <<Name("FOO"), Text(<<1>>)>>}
\* the payloads: "Off", "On", 0, "50%", "dim +", "toggle", "xyzzy"
OutPayloads ==
    {<<Word("off")>>, <<Word("on")>>, <<Word("=0")>>, <<Num(50), Word("%")>>,
     <<Word("dim"), Word("+")>>, <<Word("toggle")>>, <<Word("xyzzy")>>}

\* a message arrives at the lights-out node
LightsOutMessage ==
    /\ evaluated.fn = "lights-out input" /\ ~evaluated.done
    /\ outNode = [kind |-> "rfx-lights-out", retransmit |-> "none"]
    /\ evaluated' =
          [evaluated EXCEPT
              !.result = lightsOutInput(evaluated.args.node, evaluated.args.msg),
              !.done = TRUE]
    /\ UNCHANGED <<poolVars, held, lastOp, lastBroadcast, closed, transmitters, outNode,
                   retransmissions, timers, lastCall, invoked, inVars, detVars>>

\* ------------------------------------------- the lighting events of the input nodes
\* rfxcom.lighting1[subtype] and rfxcom.lighting2[subtype], the driver's tables from
\* subtype numbers to protocol names, as far as the handlers below use them
lighting1 == [subtype \in {0, 1} |-> IF subtype = 0 THEN "X10" ELSE "ARC"]
lighting2 == [subtype \in {0, 1} |-> IF subtype = 0 THEN "AC" ELSE "HOMEEASY_EU"]
\* table[evt.subtype] || unknown
label(table, subtype, unknown) ==
    IF subtype \in DOMAIN table THEN table[subtype] ELSE unknown

\* what a handler did with an event: the messages it sent and whether it warned
Nothing == [sent |-> <<>>, warned |-> FALSE]
Sends(msg) == [sent |-> <<msg>>, warned |-> FALSE]
Warns == [sent |-> <<>>, warned |-> TRUE]
\* a payload of one word, and "Dim " + evt.level/15*100 + "%" with the percentage in
\* units of 1/10000
Says(word) == [word |-> word, percent |-> NaN]
DimPercent(level) == [word |-> "Dim", percent |-> (level * 100 * 10000) \div 15]
\* {status: {rssi: evt.rssi}} with its topic and payload
Message(topic, payload, evt) ==
    [topic |-> topic, payload |-> payload, status |-> [rssi |-> evt.rssi]]

\* lighting1Handler of a lights-in node
lightsInLighting1Handler(node, evt) ==
    LET device == <<Name(label(lighting1, evt.subtype, "LIGHTING1_UNKNOWN")),
                    Text(evt.houseCode)>>
        topic == IF evt.commandNumber = 5 \/ evt.commandNumber = 6
                 THEN device \o <<Text(<<0>>)>>
                 ELSE device \o <<Text(decimal(evt.unitCode))>>
    IN  IF ~forwards(node.topicSource, topic, node.topic) THEN Nothing
        ELSE CASE evt.commandNumber \in {0, 5} -> Sends(Message(topic, Says("Off"), evt))
               [] evt.commandNumber \in {1, 6} -> Sends(Message(topic, Says("On"), evt))
               [] evt.commandNumber = 2 -> Sends(Message(topic, Says("Dim"), evt))
               [] evt.commandNumber = 3 -> Sends(Message(topic, Says("Bright"), evt))
               [] evt.commandNumber = 7 -> Nothing
               [] OTHER -> Warns

\* the lighting2Handler of a lights-in node with the group topic of another unit
lightsInLighting2Handler_groupFromDim(node, evt) ==
    LET device == <<Name(label(lighting2, evt.subtype, "LIGHTING2_UNKNOWN")), Text(evt.id)>>
        topic == IF evt.commandNumber >= 2
                 THEN device \o <<Text(<<0>>)>>
                 ELSE device \o <<Text(decimal(evt.unitCode))>>
    IN  IF ~forwards(node.topicSource, topic, node.topic) THEN Nothing
        ELSE CASE evt.commandNumber \in {0, 3} -> Sends(Message(topic, Says("Off"), evt))
               [] evt.commandNumber \in {1, 4} -> Sends(Message(topic, Says("On"), evt))
               [] evt.commandNumber \in {2, 5} ->
                      Sends(Message(topic, DimPercent(evt.level), evt))
               [] OTHER -> Warns

\* lighting2Handler of a lights-in node
lightsInLighting2Handler(node, evt) ==
    LET device == <<Name(label(lighting2, evt.subtype, "LIGHTING2_UNKNOWN")), Text(evt.id)>>
        topic == IF evt.commandNumber > 2
                 THEN device \o <<Text(<<0>>)>>
                 ELSE device \o <<Text(decimal(evt.unitCode))>>
    IN  IF ~forwards(node.topicSource, topic, node.topic) THEN Nothing
        ELSE CASE evt.commandNumber \in {0, 3} -> Sends(Message(topic, Says("Off"), evt))
               [] evt.commandNumber \in {1, 4} -> Sends(Message(topic, Says("On"), evt))
               [] evt.commandNumber \in {2, 5} ->
                      Sends(Message(topic, DimPercent(evt.level), evt))
               [] OTHER -> Warns

\* the lighting1Handler of a doorbell-in node that sends every event but the chime
doorbellInLighting1Handler_inverted(node, evt) ==
    LET topic == <<Name(label(lighting1, evt.subtype, "LIGHTING1_UNKNOWN")),
                   Text(evt.houseCode), Text(decimal(evt.unitCode))>>
    IN  IF ~forwards(node.topicSource, topic, node.topic) THEN Nothing
        ELSE IF evt.subtype = 1 /\ evt.commandNumber = 7 THEN Nothing
        ELSE Sends(Message(topic, Says(""), evt))

\* lighting1Handler of a doorbell-in node: the message has no payload
doorbellInLighting1Handler(node, evt) ==
    LET topic == <<Name(label(lighting1, evt.subtype, "LIGHTING1_UNKNOWN")),
                   Text(evt.houseCode), Text(decimal(evt.unitCode))>>
    IN  IF ~forwards(node.topicSource, topic, node.topic) THEN Nothing
        ELSE IF evt.subtype # 1 \/ evt.commandNumber # 7 THEN Nothing
        ELSE Sends(Message(topic, Says(""), evt))

\* the lighting1 events of the driver: X10, ARC and an unknown subtype, the house
\* codes "A" and "B", every command number up to one the handlers do not know
Lighting1Events ==
    [subtype : 0..2, houseCode : {<<10>>, <<11>>}, unitCode : {1, 4},
     commandNumber : 0..8, rssi : {5, 7}]
\* the lighting2 events: the ids "0x01" and "0x02", levels 0, 8 and 15
Lighting2Events ==
    [subtype : 0..2, id : {<<0, CharX, 0, 1>>, <<0, CharX, 0, 2>>}, unitCode : {1, 4},
     commandNumber : 0..6, level : {0, 8, 15}, rssi : {5, 7}]
\* the configurations of an input node: everything, "AC/0x01", "AC/0x01/4",
\* "ARC/A", "ARC/A/1", "LIGHTING2_UNKNOWN/0x01"
InConfigs ==
    [topicSource : {"all", "node"},
     topic : {<<Name("AC"), Text(<<0, CharX, 0, 1>>)>>,
              <<Name("AC"), Text(<<0, CharX, 0, 1>>), Text(<<4>>)>>,
              <<Name("ARC"), Text(<<10>>)>>,
              <<Name("ARC"), Text(<<10>>), Text(<<1>>)>>,
              <<Name("LIGHTING2_UNKNOWN"), Text(<<0, CharX, 0, 1>>)>>}]

\* the driver emits a lighting1 event: the handler of the lights-in node and the
\* handler of the doorbell-in node both run
EmitLighting1 ==
    /\ evaluated.fn = "lighting1" /\ ~evaluated.done
    /\ evaluated' =
          [evaluated EXCEPT
              !.result = [lights |-> lightsInLighting1Handler(evaluated.args.lights,
                                                              evaluated.args.evt),
                          doorbell |-> doorbellInLighting1Handler(evaluated.args.doorbell,
                                                                  evaluated.args.evt)],
              !.done = TRUE]
    /\ UNCHANGED <<poolVars, held, lastOp, lastBroadcast, closed, transmitters, outNode,
                   retransmissions, timers, lastCall, invoked, inVars, detVars>>

\* the driver emits a lighting2 event: the handler of the lights-in node runs
EmitLighting2 ==
    /\ evaluated.fn = "lighting2" /\ ~evaluated.done
    /\ evaluated' =
          [evaluated EXCEPT
              !.result = [lights |-> lightsInLighting2Handler(evaluated.args.lights,
                                                              evaluated.args.evt)],
              !.done = TRUE]
    /\ UNCHANGED <<poolVars, held, lastOp, lastBroadcast, closed, transmitters, outNode,
                   retransmissions, timers, lastCall, invoked, inVars, detVars>>

\* (rfxcom.security1[evt.subtype] || "SECURITY1_UNKNOWN") + "/" + evt.id
securityTopic(subtype, id) ==
    CASE subtype = "X10_DOOR" /\ id = "0x1" -> "X10_DOOR/0x1"
      [] subtype = "X10_DOOR" /\ id = "0x2" -> "X10_DOOR/0x2"
      [] subtype = "KD101" /\ id = "0x1" -> "KD101/0x1"

\* clearInterval leaving the timer pending
clearInterval_keeps(b, handle) == b

\* clearInterval(handle): cancels the timer when handle is what setInterval returned,
\* and does nothing when it is any other object
clearInterval(b, handle) ==
    IF "timer" \in DOMAIN handle /\ handle.timer \in BeatIds
    THEN [b EXCEPT ![handle.timer] = IF @ = "live" THEN "cleared" ELSE @]
    ELSE b

\* the timers setInterval has returned so far
beatsSet == Cardinality({i \in BeatIds : beats[i] # "unset"})

\* detectorPayload with the battery warning written after the status
detectorPayload_batteryOverStatus(evt, lastDeviceStatus, setsTimer) ==
    LET heartbeat == IF setsTimer /\ detNode.outputHeartbeats THEN "Heartbeat" ELSE ""
        status ==
            IF evt.deviceStatus = "MOTION" THEN "Motion"
            ELSE IF evt.deviceStatus # lastDeviceStatus
                 THEN IF evt.deviceStatus \in {"ALARM", "ALARM_DELAYED"} THEN "Alarm"
                      ELSE IF evt.deviceStatus \in {"NORMAL", "NORMAL_DELAYED"}
                           THEN "Normal"
                           ELSE heartbeat
                 ELSE heartbeat
    IN  IF evt.tampered THEN "Tamper"
        ELSE IF evt.batteryLevel = 0 THEN "Battery Low" ELSE status

\* msg.payload of a door or motion detector's event
detectorPayload(evt, lastDeviceStatus, setsTimer) ==
    LET heartbeat == IF setsTimer /\ detNode.outputHeartbeats THEN "Heartbeat" ELSE ""
        battery == IF evt.batteryLevel = 0 THEN "Battery Low" ELSE heartbeat
        status ==
            IF evt.deviceStatus = "MOTION" THEN "Motion"
            ELSE IF evt.deviceStatus # lastDeviceStatus
                 THEN IF evt.deviceStatus \in {"ALARM", "ALARM_DELAYED"} THEN "Alarm"
                      ELSE IF evt.deviceStatus \in {"NORMAL", "NORMAL_DELAYED"}
                           THEN "Normal"
                           ELSE battery
                 ELSE battery
    IN  IF evt.tampered THEN "Tamper" ELSE status

Say(payload) == IF payload # "" THEN {[node |-> DetNode, payload |-> payload]} ELSE {}

\* the detector node's security1Handler(evt)
security1Handler(evt) ==
    LET topic == securityTopic(evt.subtype, evt.id)
    IN  IF ~(detNode.topicSource = "all" \/ normaliseAndCheckTopic(topic, detNode.topic))
        THEN sent' = {} /\ UNCHANGED <<heartbeats, beats, seen>>
        ELSE IF evt.subtype \in {"KD101", "SA30", "RM174RF"}
        THEN /\ sent' = Say(IF evt.deviceStatus = "PANIC" THEN "Smoke" ELSE "")
             /\ UNCHANGED <<heartbeats, beats, seen>>
        ELSE LET has == heartbeats[topic] # NoHeartbeat
                 lastDeviceStatus == heartbeats[topic].lastStatus
                 cleared == IF has THEN clearInterval(beats, heartbeats[topic].interval)
                            ELSE beats
                 deviceIsNotInAlarm ==
                     evt.deviceStatus \in {"NORMAL", "NORMAL_DELAYED", "NO_MOTION"}
                 setsTimer == deviceIsNotInAlarm \/ lastDeviceStatus # "NaN"
                 id == beatsSet + 1
             IN  /\ setsTimer => id <= MaxBeats
                 /\ IF setsTimer
                    THEN /\ beats' = [cleared EXCEPT ![id] = "live"]
                         /\ heartbeats' = [heartbeats EXCEPT ![topic] =
                                [lastStatus |-> evt.deviceStatus,
                                 interval |-> [timer |-> id]]]
                    ELSE /\ beats' = cleared
                         /\ heartbeats' = heartbeats
                 /\ sent' = Say(detectorPayload(evt, lastDeviceStatus, setsTimer))
                 /\ seen' = [seen EXCEPT ![topic] =
                               IF evt.deviceStatus \in {"ALARM", "NORMAL"}
                               THEN evt.deviceStatus ELSE ""]

\* the constructor of the detector node
DetConstruct ==
    /\ nodeType[DetNode] = "rfx-detector-in"
    /\ held[DetNode] = 0
    /\ DetNode \notin closed
    /\ \E emits \in BOOLEAN : get(DetNode, rfxtrxPort[DetNode], emits)
    /\ LET h == pool'[rfxtrxPort[DetNode]].rfxtrx
       IN  /\ listeners' = [listeners EXCEPT ![h] =
                               @ \cup Of(DetNode, registered("rfx-detector-in"))]
           /\ lastOp' = Op("get", h)
    /\ sent' = {}
    /\ UNCHANGED <<closed, nodeType, outVars, detVars>>

\* the driver emits a security1 event and the detector node's listener runs
Security1Event(h, evt) ==
    /\ rfx[h].listening /\ rfx[h].connected
    /\ \E l \in listeners[h] : l.event = "security1" /\ l.node = DetNode
    /\ security1Handler(evt)
    /\ lastOp' = Op("event", h)
    /\ lastBroadcast' = NoBroadcast
    /\ UNCHANGED <<poolVars, held, closed, nodeType, listeners, outVars, detNode>>

\* a heartbeat interval elapses: node.send(heartbeatStoppedMsg)
HeartbeatFire(id) ==
    /\ beats[id] = "live"
    /\ sent' = Say("Silent")
    /\ lastOp' = [Op("silent", 0) EXCEPT
                     !.note = IF DetNode \in closed THEN "after close" ELSE ""]
    /\ lastBroadcast' = NoBroadcast
    /\ UNCHANGED <<poolVars, held, closed, nodeType, listeners, outVars, detVars>>

\* the detector node's "close" handler
DetClose ==
    /\ nodeType[DetNode] = "rfx-detector-in"
    /\ held[DetNode] > 0
    /\ DetNode \notin closed
    /\ releasePort(DetNode)
    /\ LET h == pool[rfxtrxPort[DetNode]].rfxtrx
           Clear[ts \in SUBSET DetectorTopics] ==
               IF ts = {} THEN beats
               ELSE LET t == CHOOSE x \in ts : TRUE
                    IN  clearInterval(Clear[ts \ {t}], heartbeats[t])
       IN  /\ listeners' = [listeners EXCEPT ![h] =
                               IF HasEntry(rfxtrxPort[DetNode])'
                               THEN @ \ Of(DetNode, registered("rfx-detector-in"))
                               ELSE {}]
           /\ beats' = Clear[{t \in DetectorTopics : heartbeats[t] # NoHeartbeat}]
           /\ lastOp' = Op("close", h)
    /\ closed' = closed \cup {DetNode}
    /\ sent' = {}
    /\ UNCHANGED <<nodeType, outVars, detNode, heartbeats, seen>>

\* no connection, no node constructed, nothing sent
InitBase ==
    /\ pool = [p \in Ports |-> NoEntry]
    /\ rfx = [h \in Handles |-> NoRfx]
    /\ inflight = [h \in Handles |-> 0]
    /\ liveIntervals = [h \in Handles |-> 0]
    /\ held = [c \in Consumers |-> 0]
    /\ lastOp = NoOp
    /\ lastBroadcast = NoBroadcast
    /\ closed = {}
    /\ transmitters = [h \in Handles |-> [n \in ProtocolNames |-> ""]]
    /\ retransmissions = [k \in Keys |-> 0]
    /\ timers = [i \in TimerIds |-> NoTimer]
    /\ listeners = [h \in Handles |-> {}]
    /\ sent = {}
    /\ heartbeats = [t \in DetectorTopics |-> NoHeartbeat]
    /\ beats = [i \in BeatIds |-> "unset"]
    /\ seen = [t \in DetectorTopics |-> ""]
    /\ lastCall = NoCall
    /\ invoked = <<>>

InitPool == InitBase /\ evaluated = NoEval

Init ==
    /\ InitPool
    /\ outNode = [kind |-> "rfx-lights-out", retransmit |-> "none"]
    /\ nodeType = [n \in Consumers |-> ""]
    /\ detNode = [topicSource |-> "all", topic |-> <<>>, outputHeartbeats |-> FALSE]

Next ==
    \/ \E c \in Consumers : Get(c)
    \/ \E c \in Consumers : Release(c)
    \/ \E h \in Handles : IntervalFire(h)
    \/ \E h \in Handles : OnConnecting(h)
    \/ \E h \in Handles, init \in BOOLEAN : OnConnectFailed(h, init)
    \/ \E h \in Handles : OnStatus(h)
    \/ \E h \in Handles, init \in BOOLEAN : OnDisconnect(h, init)
    \/ \E h \in Handles : InitCallback(h)

\* the nodes of a flow: each gets its port when constructed and releases it when closed
Spec == Init /\ [][Next]_vars

\* the nodes of a flow with a reconnect timer that keeps firing while it is set
\* (setInterval, src/rfxcom.js:78 and :114) and a link on which a handshake that is
\* attempted again and again is accepted in the end.  Nothing makes a node call get.
\* The timer's fairness is strong because the bound MaxInflight, which the
\* connections share, disables its firing from time to time.
SpecLive ==
    /\ Init
    /\ [][Next]_vars
    /\ \A h \in Handles : SF_vars(IntervalFire(h))
    /\ \A h \in Handles : SF_vars(InitCallback(h))

NextApi ==
    \/ \E c \in Consumers : ApiGet(c)
    \/ \E c \in Consumers : ApiRelease(c)

\* rfxcomPool used through get and release alone, in any order
SpecApi == Init /\ [][NextApi]_vars

\* a flow with an output node, configured in one of its ways, and another node
InitOut ==
    /\ InitPool
    /\ outNode \in [kind : OutKinds, retransmit : {"none", "once", "repeat"}]
    /\ nodeType = [n \in Consumers |-> ""]
    /\ detNode = [topicSource |-> "all", topic |-> <<>>, outputHeartbeats |-> FALSE]

NextOut ==
    \/ OutConstruct
    \/ \E t \in Topics \cup {""}, p \in Payloads : LightsOutInput(t, p)
    \/ \E t \in Topics \cup {""}, p \in {"On", "xyzzy", ""}, raw, throws \in BOOLEAN :
          ListOutInput(t, p, raw, throws)
    \/ \E id \in TimerIds, throws \in BOOLEAN : RetransmissionFire(id, throws)
    \/ OutClose

SpecOut == InitOut /\ [][NextOut]_vars

NextTx ==
    \/ Get(OutNode)
    \/ \E h \in Handles, protocol \in ProtocolNames, packetTypes \in PacketTypeLists :
          GetRfxcomSubtypeCall(h, protocol, packetTypes)

\* a node calling getRfxcomSubtype on its connection
SpecTx == Init /\ [][NextTx]_vars

\* a flow of two input nodes on one port, each of one of the stateless types
InitIn ==
    /\ InitPool
    /\ outNode = [kind |-> "rfx-lights-out", retransmit |-> "none"]
    /\ nodeType \in {t \in [Consumers -> InTypes \cup {""}] :
                        \A n \in Consumers : t[n] = "" <=> n \notin InNodes}
    /\ detNode = [topicSource |-> "all", topic |-> <<>>, outputHeartbeats |-> FALSE]

NextIn ==
    \/ \E n \in InNodes : InConstruct(n)
    \/ \E n \in InNodes : InClose(n)
    \/ \E h \in Handles : OnStatus(h)
    \/ \E h \in Handles, e \in EventNames : DataEvent(h, e)

SpecIn == InitIn /\ [][NextIn]_vars

\* a lights node about to call parseCommand
InitCmd ==
    /\ InitBase
    /\ evaluated \in {Pending("parseCommand", a) : a \in ParseCommandArgs}
    /\ outNode = [kind |-> "rfx-lights-out", retransmit |-> "none"]
    /\ nodeType = [n \in Consumers |-> ""]
    /\ detNode = [topicSource |-> "all", topic |-> <<>>, outputHeartbeats |-> FALSE]

NextCmd == ParseCommandCall

\* the lights node's parseCommand applied to payloads, commands and level ranges
SpecCmd == InitCmd /\ [][NextCmd]_vars

\* normaliseTopic about to be applied to a path string
InitTopic ==
    /\ InitBase
    /\ evaluated \in {Pending("normaliseTopic", path) : path \in TopicPaths}
    /\ outNode = [kind |-> "rfx-lights-out", retransmit |-> "none"]
    /\ nodeType = [n \in Consumers |-> ""]
    /\ detNode = [topicSource |-> "all", topic |-> <<>>, outputHeartbeats |-> FALSE]

NextTopic == NormaliseTwice

SpecTopic == InitTopic /\ [][NextTopic]_vars

\* an input node about to test the topic of an event against its configured topic
InitMatch ==
    /\ InitBase
    /\ evaluated \in {Pending("checkTopic", a) :
                          a \in [topicSource : {"all", "node"}, topic : EventPaths,
                                 configured : PatternPaths]}
    /\ outNode = [kind |-> "rfx-lights-out", retransmit |-> "none"]
    /\ nodeType = [n \in Consumers |-> ""]
    /\ detNode = [topicSource |-> "all", topic |-> <<>>, outputHeartbeats |-> FALSE]

NextMatch == FilterEvent

SpecMatch == InitMatch /\ [][NextMatch]_vars

\* a lights-in node and a doorbell-in node on a port whose driver is about to emit a
\* lighting event
InitLights ==
    /\ InitBase
    /\ evaluated \in
          {Pending("lighting1", a) :
              a \in [evt : Lighting1Events, lights : InConfigs, doorbell : InConfigs]}
          \cup {Pending("lighting2", a) : a \in [evt : Lighting2Events, lights : InConfigs]}
    /\ outNode = [kind |-> "rfx-lights-out", retransmit |-> "none"]
    /\ nodeType = [n \in Consumers |-> ""]
    /\ detNode = [topicSource |-> "all", topic |-> <<>>, outputHeartbeats |-> FALSE]

NextLights == EmitLighting1 \/ EmitLighting2

SpecLights == InitLights /\ [][NextLights]_vars

\* a lights-out node that does not retransmit, about to get a message
InitAddr ==
    /\ InitBase
    /\ evaluated \in
          {Pending("lights-out input", a) :
              a \in [node : [topicSource : {"msg", "node"}, topic : OutPaths],
                     msg : [topic : OutPaths, payload : OutPayloads]]}
    /\ outNode = [kind |-> "rfx-lights-out", retransmit |-> "none"]
    /\ nodeType = [n \in Consumers |-> ""]
    /\ detNode = [topicSource |-> "all", topic |-> <<>>, outputHeartbeats |-> FALSE]

NextAddr == LightsOutMessage

SpecAddr == InitAddr /\ [][NextAddr]_vars

\* a fan node about to parse a speed command
InitSpeed ==
    /\ InitBase
    /\ evaluated \in {Pending("speedCommand", a) :
                          a \in [payload : SpeedPayloads, speedRange : SpeedRanges]}
    /\ outNode = [kind |-> "rfx-fan-out", retransmit |-> "none"]
    /\ nodeType = [n \in Consumers |-> ""]
    /\ detNode = [topicSource |-> "all", topic |-> <<>>, outputHeartbeats |-> FALSE]

NextSpeed == SpeedCommandCall

SpecSpeed == InitSpeed /\ [][NextSpeed]_vars

\* a flow with a fan output node
InitFan ==
    /\ InitPool
    /\ outNode = [kind |-> "rfx-fan-out", retransmit |-> "none"]
    /\ nodeType = [n \in Consumers |-> ""]
    /\ detNode = [topicSource |-> "all", topic |-> <<>>, outputHeartbeats |-> FALSE]

NextFan ==
    \/ OutConstruct
    \/ \E t \in FanTopics, p \in FanPayloads, has \in SUBSET FanMethods : FanOutInput(t, p, has)
    \/ \E h \in Handles : OnStatus(h)
    \/ OutClose

SpecFan == InitFan /\ [][NextFan]_vars

\* the node types that use a port
NodeTypes ==
    {"rfx-lights-in", "rfx-PT2262-in", "rfx-PT2262-out", "rfx-raw-out", "rfx-sensor",
     "rfx-meter", "rfx-detector-in", "rfx-alarm-out", "rfx-lights-out", "rfx-fan-out",
     "rfx-doorbell-in", "rfx-doorbell-out", "rfx-trv-out", "rfx-heat-out",
     "rfx-blinds-in", "rfx-blinds-out"}

\* the node of the flow whose configuration names no port
NoPortNode == "n3"

\* what a constructor does when RED.nodes.getNode(this.port) finds no port node: the
\* blinds output node reads node.rfxtrxPort.rfyVenetianMode before any test of
\* node.rfxtrxPort, the detector node has no else branch after its test, every other
\* node calls node.error("missing config: rfxtrx-port")
withoutPort(type) ==
    CASE type = "rfx-blinds-out" -> "threw"
      [] type = "rfx-detector-in" -> "silent"
      [] OTHER -> "error"

\* the constructor of a node whose configuration names no port
ConstructNoPort(node) ==
    /\ nodeType[node] \in NodeTypes
    /\ lastOp' = [op |-> "no port", h |-> 0, note |-> withoutPort(nodeType[node])]
    /\ lastBroadcast' = NoBroadcast
    /\ sent' = {}
    /\ UNCHANGED <<poolVars, held, closed, nodeType, listeners, outVars, detVars>>

\* a flow of two input nodes on one port and a node of any type without a port
InitCtor ==
    /\ InitPool
    /\ outNode = [kind |-> "rfx-lights-out", retransmit |-> "none"]
    /\ nodeType \in {t \in [Consumers -> NodeTypes] : \A n \in InNodes : t[n] \in InTypes}
    /\ detNode = [topicSource |-> "all", topic |-> <<>>, outputHeartbeats |-> FALSE]

NextCtor ==
    \/ \E n \in InNodes : InConstruct(n)
    \/ \E n \in InNodes : InClose(n)
    \/ ConstructNoPort(NoPortNode)

SpecCtor == InitCtor /\ [][NextCtor]_vars

\* the security1 events the driver delivers
SecurityEvents ==
    {[subtype |-> d[1], id |-> d[2], deviceStatus |-> s, batteryLevel |-> b, tampered |-> t] :
        d \in DetectorDevices, s \in DeviceStatuses, b \in {0, 9}, t \in BOOLEAN}

\* a flow with a detector node, configured in one of its ways
InitDet ==
    /\ InitPool
    /\ outNode = [kind |-> "rfx-lights-out", retransmit |-> "none"]
    /\ nodeType = [n \in Consumers |-> IF n = DetNode THEN "rfx-detector-in" ELSE ""]
    /\ detNode \in {[topicSource |-> src, topic |-> normaliseTopic(raw), outputHeartbeats |-> hb] :
                        src \in {"all", "single"}, raw \in {"", "x10 door/1", "kd101"},
                        hb \in BOOLEAN}

NextDet ==
    \/ DetConstruct
    \/ \E h \in Handles : OnStatus(h)
    \/ \E h \in Handles, evt \in SecurityEvents : Security1Event(h, evt)
    \/ \E id \in BeatIds : HeartbeatFire(id)
    \/ DetClose

SpecDet == InitDet /\ [][NextDet]_vars

\* ------------------------------------------------------------------ claims
LiveTimers(key) == {i \in TimerIds : timers[i].state = "live" /\ timers[i].key = key}

\* C1: on an output node configured for one-shot retransmission, a command sent for
\* a key whose timer is still pending cancels that timer: no key has two pending
\* timers, no timer of a command that a later command of the same key followed is
\* pending, and the command a timer re-sends is the last one sent for its key.
C1_SecondCommandCancelsFirstTimer ==
    outNode.retransmit = "once" =>
        /\ \A k \in Keys : Cardinality(LiveTimers(k)) <= 1
        /\ \A i \in TimerIds : Superseded(i) => timers[i].state # "live"
        /\ lastOp.op = "resend" => lastOp.note = "last command"

\* two commands were sent for one key, the first timer was cleared before it ran and
\* the second has just run
C1_Witness ==
    /\ outNode.retransmit = "once"
    /\ lastOp.op = "resend"
    /\ \E i, j \in TimerIds :
          /\ i < j
          /\ timers[i].key = timers[j].key
          /\ timers[i].state = "replaced"
          /\ timers[j].state = "fired"

\* C2: once an output node with retransmission is closed, none of the timers it set
\* is pending, its retransmission map is empty and no timer of it re-sends anything.
C2_CloseCancelsRetransmissions ==
    /\ OutNode \in closed =>
          /\ \A i \in TimerIds : timers[i].state # "live"
          /\ \A k \in Keys : retransmissions[k] = 0
    /\ lastOp.op = "resend" => lastOp.note # "after close"

\* the node was closed while a timer of it was pending
C2_Witness ==
    /\ OutNode \in closed
    /\ \E i \in TimerIds : timers[i].state = "purged"
\* C3: once the detector node's "close" handler has run, every heartbeat timer the
\* node had set is cancelled, and no "Silent" message is sent by the node afterwards.
C3_CloseCancelsHeartbeats ==
    /\ DetNode \in closed => \A i \in BeatIds : beats[i] # "live"
    /\ lastOp.op = "silent" => lastOp.note # "after close"

\* C4: once an input node's "close" handler has run, none of the node's handlers is
\* registered on a connection that is still open, and no event makes the node send.
C4_ClosedNodeHasNoListener ==
    \A n \in closed :
        /\ \A h \in Handles : rfx[h].listening => \A l \in listeners[h] : l.node # n
        /\ lastOp.op = "event" => \A m \in sent : m.node # n

\* the RfxCom objects constructed so far
Constructed == {h \in Handles : rfx[h].device # ""}

\* C5: when release removes the last consumer of a port the connection is closed, its
\* listeners are detached, a pending reconnect timer is cancelled and the entry is
\* discarded; no reconnect attempt is made on a connection that was discarded.
C5_LastReleaseDiscards ==
    /\ \A p \in Ports : Holders(held, p) = {} => ~HasEntry(p)
    /\ \A h \in Constructed :
          /\ rfx[h].closed <=> pool[rfx[h].device].rfxtrx # h
          /\ rfx[h].closed => ~rfx[h].listening /\ liveIntervals[h] = 0
    /\ lastOp.op = "interval" => pool[rfx[lastOp.h].device].rfxtrx = lastOp.h

C5_Witness ==
    /\ lastOp.op = "release"
    /\ lastOp.note = "discarded, timer cancelled"
    /\ rfx[lastOp.h].closed

\* the occurrences of consumer c in the reference list of its port
RefCount(c) ==
    Cardinality({i \in 1 .. Len(pool[rfxtrxPort[c]].references) :
                    pool[rfxtrxPort[c]].references[i] = c})

\* C6: release removes the reference of the consumer it is given and no other, also
\* when that consumer holds none: every consumer has as many references in the list
\* as get calls it has not released.
C6_ReleaseRemovesOnlyCaller == \A c \in Consumers : RefCount(c) = held[c]

\* C7: after any sequence of get and release calls the pool has an entry, with one
\* connection that is open, for exactly the ports that have an unreleased consumer.
C7_OneConnectionPerHeldPort ==
    \A p \in Ports :
        /\ HasEntry(p) <=> Holders(held, p) # {}
        /\ HasEntry(p) => ~rfx[pool[p].rfxtrx].closed /\ rfx[pool[p].rfxtrx].device = p

\* C8: a connection has at most one reconnect timer pending, the one its pool entry
\* records; after a connect-failed or disconnect event of a port a timer is pending
\* for that port, whatever the state of the other port; after a successful connect
\* attempt no timer is pending for the port.
C8_OneReconnectTimerPerPort ==
    /\ \A h \in Handles : liveIntervals[h] <= 1
    /\ \A h \in Constructed :
          liveIntervals[h] = 1 <=>
              pool[rfx[h].device].rfxtrx = h /\ pool[rfx[h].device].intervalTimer
    /\ lastOp.op \in {"connectfailed", "disconnect"} =>
          pool[rfx[lastOp.h].device].intervalTimer /\ liveIntervals[lastOp.h] = 1
    /\ lastOp.op = "connected" =>
          ~pool[rfx[lastOp.h].device].intervalTimer /\ liveIntervals[lastOp.h] = 0

C8_Witness ==
    /\ lastOp.op = "connectfailed"
    /\ \A p \in Ports : pool[p].intervalTimer

\* C9: a get call starts the initialise handshake exactly when the connection it
\* returns was, at the call, neither connected nor initialising.
C9_GetStartsHandshakeWhenIdle ==
    [][lastOp'.op = "get" =>
          LET h == lastOp'.h
          IN  (inflight'[h] = inflight[h] + 1) <=>
                  (rfx[h].connected = FALSE /\ rfx[h].initialising = FALSE)]_vars

C9_Witness ==
    /\ lastOp.op = "get"
    /\ Len(pool[rfx[lastOp.h].device].references) = 2
    /\ rfx[lastOp.h].connected
    /\ inflight[lastOp.h] = 0

\* C10: a status broadcast made on a connecting, status or disconnect event reaches
\* every consumer that called get for the port and has not released it, and nobody else.
C10_EveryHolderNotified ==
    lastBroadcast.missed = {} /\ lastBroadcast.strangers = {}

\* C11: a getRfxcomSubtype call for a name that is not cached and that some family
\* of the list holds constructs exactly one transmitter, and the cached transmitter
\* and the returned subtype are those of the first such family of the list.
C11_FirstFamilyWins ==
    lastCall.protocol # "" /\ lastCall.before = "" /\ lastCall.matching # <<>> =>
        /\ lastCall.constructed = 1
        /\ lastCall.after = Head(lastCall.matching)
        /\ lastCall.subtype = Subtype(Head(lastCall.matching), lastCall.protocol)

\* C12: a getRfxcomSubtype call for a name that is cached constructs no transmitter,
\* leaves the cached transmitter of the name as it was and returns that transmitter's
\* subtype, which is what the call that cached it returned; no step changes the
\* transmitter cached for a name.
C12_SecondCallUsesCache ==
    [][/\ \A h \in Handles, n \in ProtocolNames :
              transmitters[h][n] # "" => transmitters'[h][n] = transmitters[h][n]
       /\ lastCall'.before # "" =>
              /\ lastCall'.constructed = 0
              /\ lastCall'.after = lastCall'.before
              /\ lastCall'.subtype = Subtype(lastCall'.before, lastCall'.protocol)]_vars

C12_Witness ==
    /\ lastCall.protocol = "ARC"
    /\ lastCall.before = "lighting1"
    /\ lastCall.subtype = Subtype("lighting1", "ARC")

\* C13: a getRfxcomSubtype call for a name that no family of the list holds returns
\* -1, constructs nothing and caches nothing; the output node's input handler then
\* warns that the device type is not supported and changes nothing: no transmitter is
\* cached, no retransmission entry or timer is made or cancelled.
C13_UnknownProtocolWarns ==
    [][lastCall'.protocol # "" /\ lastCall'.before = "" /\ lastCall'.matching = <<>> =>
          /\ lastCall'.subtype = Minus1
          /\ lastCall'.constructed = 0
          /\ lastCall'.after = ""
          /\ lastOp'.op = "input" =>
                /\ lastOp'.note = "not supported"
                /\ UNCHANGED <<transmitters, retransmissions, timers>>]_vars

C13_Witness ==
    /\ lastOp.note = "not supported"
    /\ lastCall.protocol = "FOO"
    /\ lastCall.subtype = Minus1
    /\ \E i \in TimerIds : timers[i].state = "live"

\* C14: a retransmission timer is set, and an entry made or replaced, only by an
\* input message whose first send ran a transmitter method without failure; a message
\* whose send fails or whose payload is not recognised leaves the entries and the
\* timers as they were.
C14_OnlySuccessfulSendArms ==
    [][/\ armedCount' # armedCount => lastOp'.op = "input" /\ lastOp'.note = "sent"
       /\ lastOp'.op = "input" /\ lastOp'.note # "sent" =>
              UNCHANGED <<retransmissions, timers>>]_vars

\* C15: in one-shot mode a timer that fires is spent and leaves no entry for its key
\* in the map; in repeating mode a firing changes neither the map nor the timers, every
\* pending timer is the entry of its key, and a timer stops being pending only when a
\* message replaces it or the node is closed.
C15_OneShotSelfDeletes ==
    [][/\ \A id \in TimerIds :
              timers[id].state = "live" /\ timers'[id].state = "fired" =>
                  /\ outNode.retransmit = "once" /\ lastOp'.op = "resend"
                  /\ retransmissions'[timers[id].key] = 0
       /\ lastOp'.op = "resend" /\ outNode.retransmit = "once" =>
              \E id \in TimerIds : timers[id].state = "live" /\ timers'[id].state = "fired"
       /\ outNode.retransmit = "repeat" =>
              /\ lastOp'.op = "resend" => UNCHANGED <<retransmissions, timers>>
              /\ \A id \in TimerIds :
                    /\ timers'[id].state = "live" => retransmissions'[timers'[id].key] = id
                    /\ timers[id].state = "live" /\ timers'[id].state # "live" =>
                           lastOp'.op \in {"input", "close"}]_vars

C15_Witness ==
    /\ outNode.retransmit = "once"
    /\ lastOp.op = "resend"
    /\ \E id \in TimerIds : timers[id].state = "fired" /\ retransmissions[timers[id].key] = 0
    /\ \E id \in TimerIds : timers[id].state = "live"

ValidHandling(tx, topic, payload) ==
    CommandOutcome(getRfxcomSubtype(tx, protocolNameOf(topic), LightsOutPacketTypes)
                       [protocolNameOf(topic)],
                   payload)

C18_NoPortReportsOneError ==
    lastOp.op = "no port" => lastOp.note = "error"

\* C19: a message for which no topic can be resolved is warned about, calls no
\* transmitter and creates no retransmission entry: no message without topic is
\* dropped silently, and no timer was ever set under the key of a message without
\* topic.
C19_NoTopicNoOperation ==
    /\ lastOp.op = "input" => lastOp.note # "no topic"
    /\ \A i \in TimerIds : timers[i].state # "unset" => timers[i].key # "__none__"

\* C20: an input message makes its first send call at most one transmitter method:
\* one when the send is made, none when the message ends in a warning.
C20_AtMostOneOperation ==
    lastOp.op = "input" =>
        /\ Len(invoked) <= 1
        /\ lastOp.note = "sent" => Len(invoked) = 1
        /\ lastOp.note \in {"missing topic", "not supported", "warned"} => invoked = <<>>

\* the payload matches the on pattern, the off pattern
onPattern(payload) == hasWord(payload, {"on", "=1", "=true"})
offPattern(payload) == hasWord(payload, {"off", "=0", "=false"})

\* C21: parseCommand takes the first pattern the payload matches, in the order
\* dimming, on, off, mood, scene, toggle, program: the method called is one of that
\* pattern's methods, or the warning is that pattern's; a payload that matches no
\* pattern, and only such a payload, gets the warning naming the payload, and a
\* warning comes with no method call.
C21_FirstPatternWins ==
    evaluated.fn = "parseCommand" /\ evaluated.done =>
        LET payload == evaluated.args.payload
            dim == dimPattern(payload) \/ evaluated.args.alexaCommand \in Percentages
            r == evaluated.result
            before(ws) == dim \/ onPattern(payload) \/ offPattern(payload)
                              \/ hasWord(payload, ws)
        IN  /\ dim => \/ r.method \in {"setLevel", "increaseLevel", "decreaseLevel"}
                       \/ r.warning = "dimming"
            /\ ~dim /\ onPattern(payload) => r.method \in {"switchOn", "switchLightOn"}
            /\ ~dim /\ ~onPattern(payload) /\ offPattern(payload) =>
                   r.method \in {"switchOff", "switchLightOff"}
            /\ ~before({}) /\ hasWord(payload, {"mood"}) =>
                   r.method = "setMood" \/ r.warning = "mood"
            /\ ~before({"mood"}) /\ hasWord(payload, {"scene"}) =>
                   r.method = "setScene" \/ r.warning = "scene"
            /\ ~before({"mood", "scene"}) /\ hasWord(payload, {"toggle"}) =>
                   r.method \in {"toggleOnOff", "toggleLightOnOff"}
            /\ ~before({"mood", "scene", "toggle"}) /\ hasWord(payload, {"program"}) =>
                   r.method = "program"
            /\ r.warning = "payload" <=>
                   ~before({"mood", "scene", "toggle", "program"})
            /\ r.warning # "" <=> r.method = ""

C21_Witness ==
    /\ evaluated.fn = "parseCommand" /\ evaluated.done
    /\ evaluated.args.payload = <<Word("toggle"), Word("on")>>
    /\ evaluated.result.method = "switchOn"

\* C22: for a payload "p%" without Alexa command and a level range [lo, hi],
\* parseCommand calls setLevel with the level round(lo + (q/100)*(hi - lo)), where q
\* is p clamped to 100 and halves round up: the integer L with
\* L - 1/2 <= lo + (q/100)*(hi - lo) < L + 1/2.  L lies in [lo, hi], and "50%" with
\* the range [0, 31] gives 16.
C22_PercentageMapsOntoRange ==
    /\ evaluated.fn = "parseCommand" /\ evaluated.done
    /\ evaluated.args.payload \in PercentPayloads
    /\ evaluated.args.alexaCommand = ""
    /\ evaluated.args.levelRange # <<>>
    => LET p == evaluated.args.payload[1].n
           q == IF p > 100 THEN 100 ELSE p
           lo == evaluated.args.levelRange[1]
           hi == evaluated.args.levelRange[2]
           level == evaluated.result.number
       IN  /\ evaluated.result.method = "setLevel"
           /\ 200 * (level - lo) - 100 <= 2 * q * (hi - lo)
           /\ 2 * q * (hi - lo) < 200 * (level - lo) + 100
           /\ lo <= level /\ level <= hi
           /\ p = 50 /\ lo = 0 /\ hi = 31 => level = 16

C22_Witness ==
    /\ evaluated.fn = "parseCommand" /\ evaluated.done
    /\ evaluated.args.payload = <<Num(50), Word("%")>>
    /\ evaluated.args.alexaCommand = ""
    /\ evaluated.args.levelRange = <<0, 31>>
    /\ evaluated.result = Invoke("setLevel", 16, NaN)

\* C23: with an empty level range parseCommand never calls setLevel, whatever the
\* payload and the Alexa command: a payload or command of the dimming pattern ends in
\* increaseLevel, in decreaseLevel or in the dimming warning, and "dim +" without
\* Alexa command ends in increaseLevel.
C23_EmptyRangeNeverSetsLevel ==
    evaluated.fn = "parseCommand" /\ evaluated.done /\ evaluated.args.levelRange = <<>> =>
        /\ evaluated.result.method # "setLevel"
        /\ dimPattern(evaluated.args.payload) \/ evaluated.args.alexaCommand \in Percentages =>
               \/ evaluated.result.method \in {"increaseLevel", "decreaseLevel"}
               \/ evaluated.result = Warn("dimming")
        /\ evaluated.args.payload = <<Word("dim"), Word("+")>>
               /\ evaluated.args.alexaCommand = "" =>
               evaluated.result.method = "increaseLevel"

C23_Witness ==
    /\ evaluated.fn = "parseCommand" /\ evaluated.done
    /\ evaluated.args.levelRange = <<>>
    /\ evaluated.args.payload = <<Word("level"), Num(50)>>
    /\ evaluated.args.alexaCommand = ""
    /\ evaluated.result = Warn("dimming")

\* C25: normalising a path string, joining the result with "/" and normalising
\* again gives the address that normalising once gave.
C25_NormaliseIsIdempotent ==
    evaluated.fn = "normaliseTopic" /\ evaluated.done =>
        evaluated.result.twice = evaluated.result.once

\* address a is a prefix of address b, position by position
IsPrefix(a, b) == Len(a) <= Len(b) /\ \A i \in 1..Len(a) : a[i] = b[i]

\* C24: a node that filters by its topic forwards an event whenever one of the two
\* normalised addresses, the event's and the node's, is a prefix of the other.
C24_PrefixEitherWayMatches ==
    evaluated.fn = "checkTopic" /\ evaluated.done /\ evaluated.args.topicSource = "node" =>
        LET event == normalisePath(evaluated.args.topic)
            configured == normalisePath(evaluated.args.configured)
        IN  IsPrefix(event, configured) \/ IsPrefix(configured, event) => evaluated.result

\* C24 as amended: a node that filters by its topic forwards an event whenever the
\* node's normalised address is a prefix of the event's normalised address, and
\* does not forward it when the event's address is a proper prefix of the node's.
C24_ConfiguredPrefixMatches ==
    evaluated.fn = "checkTopic" /\ evaluated.done /\ evaluated.args.topicSource = "node" =>
        LET event == normalisePath(evaluated.args.topic)
            configured == normalisePath(evaluated.args.configured)
        IN  /\ IsPrefix(configured, event) => evaluated.result
            /\ IsPrefix(event, configured) /\ event # configured => ~evaluated.result

C24_Witness ==
    /\ evaluated.fn = "checkTopic" /\ evaluated.done
    /\ evaluated.args.topicSource = "node"
    /\ evaluated.args.configured = <<Name("AC"), Text(<<1>>)>>
    /\ evaluated.args.topic = <<Name("AC"), Text(<<1>>), Text(<<4>>), Text(<<1>>)>>
    /\ evaluated.result

unitTopic(evt) ==
    <<Name(IF evt.subtype = 0 THEN "AC"
           ELSE IF evt.subtype = 1 THEN "HOMEEASY_EU" ELSE "LIGHTING2_UNKNOWN"),
      Text(evt.id), Text(decimal(evt.unitCode))>>
isDevice(node, evt) ==
    /\ node.topicSource = "node"
    /\ normalisePath(node.topic) = normalisePath(SubSeq(unitTopic(evt), 1, 2))

\* C27: a lighting2 event with command number 0, 1 or 2, received by a lights-in
\* node configured with the event's device, is sent on as one message with the
\* topic protocolLabel/id/unitCode, the payload Off, On or Dim respectively and the
\* event's rssi as status.
C27_Lighting2OffOnDim ==
    /\ evaluated.fn = "lighting2" /\ evaluated.done
    /\ evaluated.args.evt.commandNumber \in 0..2
    /\ isDevice(evaluated.args.lights, evaluated.args.evt)
    => LET evt == evaluated.args.evt
           word == IF evt.commandNumber = 0 THEN "Off"
                   ELSE IF evt.commandNumber = 1 THEN "On" ELSE "Dim"
       IN  evaluated.result.lights.sent =
               <<[topic |-> unitTopic(evt),
                  payload |-> [word |-> word, percent |-> NaN],
                  status |-> [rssi |-> evt.rssi]]>>

\* C27 as amended: the same, with the payload of command number 2 being Dim
\* followed by the percentage level/15*100 and a percent sign.
C27_Lighting2OffOnDimPercent ==
    /\ evaluated.fn = "lighting2" /\ evaluated.done
    /\ evaluated.args.evt.commandNumber \in 0..2
    /\ isDevice(evaluated.args.lights, evaluated.args.evt)
    => LET evt == evaluated.args.evt
           msgs == evaluated.result.lights.sent
       IN  /\ Len(msgs) = 1 /\ ~evaluated.result.lights.warned
           /\ msgs[1].topic = unitTopic(evt)
           /\ msgs[1].status = [rssi |-> evt.rssi]
           /\ evt.commandNumber = 0 => msgs[1].payload = [word |-> "Off", percent |-> NaN]
           /\ evt.commandNumber = 1 => msgs[1].payload = [word |-> "On", percent |-> NaN]
           /\ evt.commandNumber = 2 =>
                  /\ msgs[1].payload.word = "Dim"
                  /\ 15 * msgs[1].payload.percent <= evt.level * 100 * 10000
                  /\ evt.level * 100 * 10000 < 15 * (msgs[1].payload.percent + 1)

\* the event {subtype 0, id "0x01", commandNumber 1, unitCode 4, rssi 5} at a node
\* bound to "AC/0x01" with source "node"
C27_Witness ==
    /\ evaluated.fn = "lighting2" /\ evaluated.done
    /\ evaluated.args.evt.subtype = 0 /\ evaluated.args.evt.id = <<0, CharX, 0, 1>>
    /\ evaluated.args.evt.commandNumber = 1 /\ evaluated.args.evt.unitCode = 4
    /\ evaluated.args.evt.rssi = 5
    /\ evaluated.args.lights =
           [topicSource |-> "node", topic |-> <<Name("AC"), Text(<<0, CharX, 0, 1>>)>>]
    /\ evaluated.result.lights.sent =
           <<[topic |-> <<Name("AC"), Text(<<0, CharX, 0, 1>>), Text(<<4>>)>>,
              payload |-> [word |-> "On", percent |-> NaN],
              status |-> [rssi |-> 5]]>>

\* the message {topic: "ARC/A/1", payload: "Off"} at a lights-out node that takes
\* the topic from the message
isArcA1Off(args) ==
    /\ args.node.topicSource = "msg"
    /\ args.msg.topic = <<Name("ARC"), Text(<<10>>), Text(<<1>>)>>
    /\ args.msg.payload = <<Word("off")>>

isChime(evt) == evt.subtype = 1 /\ evt.commandNumber = 7

\* C29: no lighting1 event is sent on by both the lights-in node and the
\* doorbell-in node; with both nodes listening to everything, the ARC chime
\* (subtype 1, command 7) is sent on by the doorbell-in node and not by the
\* lights-in node; and no other lighting1 event is ever sent on by a doorbell-in node.
C29_ChimeOnlyByDoorbell ==
    evaluated.fn = "lighting1" /\ evaluated.done =>
        LET lights == evaluated.result.lights.sent
            doorbell == evaluated.result.doorbell.sent
        IN  /\ lights = <<>> \/ doorbell = <<>>
            /\ /\ isChime(evaluated.args.evt)
               /\ evaluated.args.lights.topicSource = "all"
               /\ evaluated.args.doorbell.topicSource = "all"
               => Len(doorbell) = 1 /\ lights = <<>>
            /\ ~isChime(evaluated.args.evt) => doorbell = <<>>

C29_Witness ==
    /\ evaluated.fn = "lighting1" /\ evaluated.done
    /\ isChime(evaluated.args.evt)
    /\ evaluated.args.lights.topicSource = "all"
    /\ evaluated.args.doorbell.topicSource = "all"
    /\ Len(evaluated.result.doorbell.sent) = 1
    /\ evaluated.result.lights = Nothing

\* the door and motion detectors' events that the detector node lets through
isDetectorEvent(evt) ==
    /\ evt.subtype = "X10_DOOR"
    /\ \/ detNode.topicSource = "all"
       \/ normaliseAndCheckTopic(securityTopic(evt.subtype, evt.id), detNode.topic)
\* the status the event reports: Motion always, Alarm and Normal when the status
\* differs from the one of the device's last message
reported(evt) ==
    LET last == heartbeats[securityTopic(evt.subtype, evt.id)].lastStatus
    IN  IF evt.deviceStatus = "MOTION" THEN "Motion"
        ELSE IF evt.deviceStatus = "ALARM" /\ last # "ALARM" THEN "Alarm"
        ELSE IF evt.deviceStatus = "NORMAL" /\ last # "NORMAL" THEN "Normal"
        ELSE ""
\* the event is one that counts as a heartbeat of a node that outputs heartbeats
isHeartbeat(evt) ==
    /\ detNode.outputHeartbeats
    /\ \/ evt.deviceStatus \in {"NORMAL", "NO_MOTION"}
       \/ heartbeats[securityTopic(evt.subtype, evt.id)] # NoHeartbeat
payloadsSent == {m.payload : m \in sent}

\* C30: the payload of a door or motion detector's event is Tamper whenever the
\* event is tampered; otherwise the Alarm, Motion or Normal it reports; otherwise
\* Battery Low when the battery level is 0; otherwise Heartbeat when it counts as
\* one; and an event that yields none of these sends no message.
C30_PayloadPriority ==
    [][\A h \in Handles, evt \in SecurityEvents :
          Security1Event(h, evt) /\ isDetectorEvent(evt) =>
              /\ evt.tampered => payloadsSent' = {"Tamper"}
              /\ ~evt.tampered /\ reported(evt) # "" => payloadsSent' = {reported(evt)}
              /\ ~evt.tampered /\ reported(evt) = "" /\ evt.batteryLevel = 0 =>
                     payloadsSent' = {"Battery Low"}
              /\ ~evt.tampered /\ reported(evt) = "" /\ evt.batteryLevel # 0
                     /\ isHeartbeat(evt) => payloadsSent' = {"Heartbeat"}
              /\ ~evt.tampered /\ reported(evt) = "" /\ evt.batteryLevel # 0
                     /\ ~isHeartbeat(evt) => sent' = {}]_vars

\* a Battery Low was sent for a device whose event also counted as a heartbeat
C30_Witness ==
    /\ lastOp.op = "event"
    /\ payloadsSent = {"Battery Low"}
    /\ detNode.outputHeartbeats
    /\ \A t \in {"X10_DOOR/0x1", "X10_DOOR/0x2"} : heartbeats[t] # NoHeartbeat

\* C31: when the event a door or motion detector sends carries the Alarm or the
\* Normal status that the device's event before it carried, no Alarm and no Normal
\* payload is sent for it, whatever the events of the device before these two were.
C31_DuplicateStatusSuppressed ==
    [][\A h \in Handles, evt \in SecurityEvents :
          /\ Security1Event(h, evt)
          /\ isDetectorEvent(evt)
          /\ evt.deviceStatus \in {"ALARM", "NORMAL"}
          /\ seen[securityTopic(evt.subtype, evt.id)] = evt.deviceStatus
          => payloadsSent' \cap {"Alarm", "Normal"} = {}]_vars

\* the heartbeat timers that are pending for a device
liveBeats(topic) ==
    {i \in BeatIds : beats[i] = "live" /\ heartbeats[topic].interval = [timer |-> i]}

\* C32: every pending heartbeat timer is the timer of the entry of exactly one
\* device, so at most one is pending per device; an event from a device that has
\* an entry cancels the entry's timer and sets a new one; and a Silent message is
\* sent only by the timer that the last event of its device set.
C32_OneHeartbeatTimerPerDevice ==
    /\ [](\A i \in BeatIds : beats[i] = "live" =>
              Cardinality({t \in DetectorTopics : i \in liveBeats(t)}) = 1)
    /\ [][\A h \in Handles, evt \in SecurityEvents :
             LET topic == securityTopic(evt.subtype, evt.id) IN
             /\ Security1Event(h, evt)
             /\ isDetectorEvent(evt)
             /\ heartbeats[topic] # NoHeartbeat
             => /\ beats'[heartbeats[topic].interval.timer] = "cleared"
                /\ beats[heartbeats'[topic].interval.timer] = "unset"
                /\ beats'[heartbeats'[topic].interval.timer] = "live"]_vars
    /\ [][\A i \in BeatIds :
             HeartbeatFire(i) => \E t \in DetectorTopics : i \in liveBeats(t)]_vars

\* an event has replaced the timer of a device that had one
C32_Witness ==
    /\ lastOp.op = "event"
    /\ \E t \in DetectorTopics, i \in BeatIds :
          /\ liveBeats(t) = {i}
          /\ \E j \in BeatIds : j < i /\ beats[j] = "cleared"

\* the speed a payload of one word sets on a fan of a speed range, when it sets one
setsSpeed(word, range, speed) ==
    /\ evaluated.args.payload = <<Word(word)>>
    /\ evaluated.args.speedRange = range
    => evaluated.result.method = "setSpeed" /\ evaluated.result.number = speed

\* C33: on a fan of speed range [1, 3] the payloads low, med and high invoke
\* setSpeed with 1, 2 and 3, and on a fan of speed range [1, 4] the payload full
\* invokes setSpeed with 4.
C33_NamedSpeedBands ==
    evaluated.fn = "speedCommand" /\ evaluated.done =>
        /\ setsSpeed("low", <<1, 3>>, 1)
        /\ setsSpeed("med", <<1, 3>>, 2)
        /\ setsSpeed("high", <<1, 3>>, 3)
        /\ setsSpeed("full", <<1, 4>>, 4)

\* C35: the callback of a handshake that completes after the last consumer has
\* released the port, so that the connection it belongs to is closed, throws
\* nothing and leaves the pool as it was.
C35_StaleCallbackInert ==
    [][\A h \in Handles :
          InitCallback(h) /\ rfx[h].closed =>
              lastOp'.op # "threw" /\ pool' = pool /\ liveIntervals' = liveIntervals]_vars

\* C36: no connection ever has more than one initialise handshake in progress,
\* whether get or the reconnect timer started them.
C36_OneHandshakeInProgress == \A h \in Handles : inflight[h] <= 1

\* the connection h is in the pool, held by a consumer, and not connected
awaitsConnection(h) ==
    /\ rfx[h].device # ""
    /\ pool[rfx[h].device].rfxtrx = h
    /\ Len(pool[rfx[h].device].references) > 0
    /\ ~rfx[h].connected

\* C34: a connection that has a consumer and is not connected becomes connected in
\* the end, or loses its consumers, by the handshakes that get and the reconnect
\* timer start, when the timer keeps firing and the link accepts a handshake in the end.
C34_ReconnectsWhileHeld ==
    \A h \in Handles : awaitsConnection(h) ~> ~awaitsConnection(h)

\* the node on which the listener that made the last step called node.log
\* (src/rfxcom.js:70, 109): the node variable of the get call that attached it
loggedOn ==
    IF lastOp.op \in {"connecting", "disconnect"} THEN rfx[lastOp.h].node ELSE ""

\* C37: the listeners of a connection call log and status only on consumers that
\* hold the connection's port: never on one that has released it while others
\* still hold it, the consumer whose get created the connection included.
C37_ReleasedConsumerLeftAlone ==
    /\ loggedOn # "" => held[loggedOn] > 0
    /\ lastBroadcast.strangers = {}

\* the topics whose entry in node.retransmissions has a pending timer
pendingKeys ==
    {k \in Topics : retransmissions[k] # 0 /\ timers[retransmissions[k]].state = "live"}

\* C38: no two retransmission entries of the lights node are pending for the same
\* device: two topics that give the same protocol name and the same address, as
\* topics that differ in letter case alone do, share one entry.
C38_OneRetransmissionPerDevice ==
    outNode.kind = "rfx-lights-out" =>
        \A k1, k2 \in pendingKeys :
            protocolNameOf(k1) = protocolNameOf(k2) /\ addressOf(k1) = addressOf(k2)
                => k1 = k2

\* C39: every getRfxcomSubtype call of a node either reports the name as not
\* supported or leaves the node with a transmitter of a packet family of the list
\* the node gave, one that holds the name; a name that none of the list's families
\* holds is reported as not supported, whatever other nodes have cached for it.
C39_TransmitterOfCandidateFamily ==
    lastCall.protocol # "" /\ lastCall.subtype # Minus1 =>
        \E i \in 1 .. Len(lastCall.matching) : lastCall.matching[i] = lastCall.after

====
